---- MODULE Spec2Model ----
(***************************************************************************)
(* The negative-sample augmentation pipeline of rxn-ebm                    *)
(* (rxnebm/data/dataset.py): AugmentedDataFingerprints (construction,      *)
(* get_one_minibatch, precompute, precompute_light_memory),                *)
(* ReactionDatasetFingerprints (construction, __getitem__) and             *)
(* ReactionDatasetSMILES (construction, get_smiles_and_masks).             *)
(*                                                                         *)
(* A molecule is its id in the fingerprint store (1..NMols), a fingerprint *)
(* a sequence of FpSize integers, a reaction a record [r, p] of the        *)
(* reactant side and the product.  The module rxnebm.data.augmentors is    *)
(* not part of the sources at hand: its operators are written from the     *)
(* specification (sections 4.1 to 4.5) and say so.                         *)
(***************************************************************************)
EXTENDS Integers, Sequences, FiniteSets, TLC

\* ------------------------------------------------------------------ bounds
NMols == 4          \* molecules in the fingerprint store
FpSize == 2         \* fp_size, scaled down from 4096
MaxAugs == 2        \* entries of the augmentations dict
MaxNeg == 2         \* largest num_neg of an entry
MaxCorpus == 2      \* reactions in the corpus
MaxWorkers == 2     \* cores seen by os.sched_getaffinity
MaxCalls == 2       \* calls of precompute / precompute_light_memory
NumBits == 1        \* num_bits of the Bit augmentor
MaxInput == 3       \* entries of the dict plus reactions of the corpus
MaxSeed == 1        \* largest random seed
MaxGets == 2        \* calls of ReactionDatasetFingerprints.__getitem__
MaxBulk == 5        \* reactions of a corpus of the bulk runs
NSmis == 3          \* distinct reaction SMILES of the cleaned phases
MaxList == 2        \* reactions of one cleaned phase
TopK == 3           \* topk of Retrosim: proposals kept per product
NPrecs == 2         \* distinct precursor SMILES
NProds == 2         \* distinct product SMILES
MaxGraphCorpus == 3 \* reactions of the corpus of the graph-feature runs
MaxRuns == 2        \* constructions of the graph-feature dataset

\* ------------------------------------------------------------- small helpers
RECURSIVE SumSeq(_)
SumSeq(s) == IF s = <<>> THEN 0 ELSE Head(s) + SumSeq(Tail(s))

RECURSIVE Flatten(_)
Flatten(ss) == IF ss = <<>> THEN <<>> ELSE Head(ss) \o Flatten(Tail(ss))

Repeat(x, n) == [k \in 1..n |-> x]

\* --------------------------------------------------------- fingerprint store
Mols == 1..NMols

\* mol_fps: the sparse matrix mol id -> fingerprint.  Molecules m and m+3 have
\* the same fingerprint (stereoisomers under a Morgan count fingerprint).
MolFp(m) ==
    LET code == ((m - 1) % 3) + 1
    IN  [c \in 1..FpSize |-> IF c = 1 THEN code % 2
                             ELSE IF c = 2 THEN (code \div 2) % 2 ELSE 0]

RxnTypes == {"diff", "sep"}

\* dimensionality of a reaction fingerprint
RxnDim(rxn_type) == IF rxn_type = "diff" THEN FpSize ELSE 2 * FpSize

ZeroFp(rxn_type) == Repeat(0, RxnDim(rxn_type))

\* augmentors.make_rxn_fp: diff = product - reactants, sep = concatenation
make_rxn_fp(rcts_fp, prod_fp, rxn_type) ==
    IF rxn_type = "diff"
    THEN [c \in 1..FpSize |-> prod_fp[c] - rcts_fp[c]]
    ELSE rcts_fp \o prod_fp

\* the reaction fingerprint of reactant side r and product p
RxnFp(r, p, rxn_type) == make_rxn_fp(MolFp(r), MolFp(p), rxn_type)

\* the reactions a corpus is drawn from: reactant side and product differ
CorpusRxns == {[r |-> 1, p |-> 2], [r |-> 1, p |-> 4]}

\* a reaction whose product SMILES is not a key of smi_to_fp_dict
BadRxn == [r |-> 1, p |-> NMols + 1]

\* a lookup that never fails
NeverRaises(rxn) == FALSE

\* augmentors.rcts_prod_fps_from_rxn_smi: the lookup of a SMILES that is not in
\* the store fails
Raises(rxn) == rxn.r \notin Mols \/ rxn.p \notin Mols

\* mut_smis: product -> list of mutated product molecules (the mutation pool);
\* product p has the p - 1 molecules below it, so pools of size 0 to NMols - 1
MutSmis(p) == [k \in 1..(p - 1) |-> k]

\* ---------------------------------------------------------------- augmentors
AugNames == {"cos", "rdm", "bit", "mut", "crem", "xyz"}

\* The process-wide random generator that seed_everything(seed) seeds: a
\* state in 0..RngMod-1, a draw below n read off the state, the state
\* advanced by every draw.
RngMod == 6
NextRng(rng) == (rng + 1) % RngMod
Draw(n, rng) == (rng % n) + 1

RemoveAt(L, j) == SubSeq(L, 1, j - 1) \o SubSeq(L, j + 1, Len(L))

\* random.sample(L, k): k draws without replacement; [picks, rng]
RECURSIVE SampleNoRepl(_, _, _)
SampleNoRepl(L, k, rng) ==
    IF k = 0 \/ L = <<>> THEN [picks |-> <<>>, rng |-> rng]
    ELSE LET j == Draw(Len(L), rng)
             rest == SampleNoRepl(RemoveAt(L, j), k - 1, NextRng(rng))
         IN  [picks |-> <<L[j]>> \o rest.picks, rng |-> rest.rng]

\* the molecules of the store other than those in S, by id
RECURSIVE MolsExcept(_, _)
MolsExcept(S, m) ==
    IF m > NMols THEN <<>>
    ELSE (IF m \in S THEN <<>> ELSE <<m>>) \o MolsExcept(S, m + 1)

\* Random.get_one_sample: num_neg molecules other than the reaction's own,
\* drawn without replacement, each paired with the true product
RandomSample(rxn, num_neg, rxn_type, rng) ==
    LET s == SampleNoRepl(MolsExcept({rxn.r, rxn.p}, 1), num_neg, rng)
    IN  [fps |-> [k \in 1..num_neg |-> RxnFp(s.picks[k], rxn.p, rxn_type)],
         rng |-> s.rng]

\* every coordinate up to the largest one drawn corrupted (a slice in place
\* of an index list)
CorruptThrough(fp, cs) ==
    [c \in 1..Len(fp) |->
        IF \E k \in 1..Len(cs) : c <= cs[k] THEN (IF fp[c] = 0 THEN 1 ELSE 0) ELSE fp[c]]

\* one corrupted copy of fp: the coordinates listed in cs flipped
Corrupt(fp, cs) ==
    [c \in 1..Len(fp) |->
        IF \E k \in 1..Len(cs) : cs[k] = c THEN (IF fp[c] = 0 THEN 1 ELSE 0) ELSE fp[c]]

\* the coordinates one negative corrupts: NumBits of them, without replacement
BitPicks(dim, rng) == SampleNoRepl([c \in 1..dim |-> c], NumBits, rng)

\* Bit.get_one_sample: num_neg copies of the true reaction fingerprint, each
\* with NumBits coordinates (drawn without replacement) corrupted
RECURSIVE BitSample(_, _, _, _)
BitSample(rxn, num_neg, rxn_type, rng) ==
    IF num_neg = 0 THEN [fps |-> <<>>, rng |-> rng]
    ELSE LET pos == RxnFp(rxn.r, rxn.p, rxn_type)
             s == BitPicks(Len(pos), rng)
             rest == BitSample(rxn, num_neg - 1, rxn_type, s.rng)
         IN  [fps |-> <<Corrupt(pos, s.picks)>> \o rest.fps, rng |-> rest.rng]

\* what the k-nearest-neighbour query for product p returns: p neighbours at
\* most, the product itself second and again later, one neighbour twice
KnnList(p) ==
    LET nbr(k) == ((p - 1 + k) % NMols) + 1
    IN  SubSeq(<<nbr(1), p, nbr(1), p, nbr(2), nbr(3)>>, 1, p + 1)

\* the filter that takes the product to be the first result and drops it
DropFirstOnly(ids, p, seen) == IF ids = <<>> THEN <<>> ELSE Tail(ids)

\* the results without the true product and without an id seen before
RECURSIVE FilterNeighbours(_, _, _)
FilterNeighbours(ids, p, seen) ==
    IF ids = <<>> THEN <<>>
    ELSE IF Head(ids) = p \/ Head(ids) \in seen
         THEN FilterNeighbours(Tail(ids), p, seen)
         ELSE <<Head(ids)>> \o FilterNeighbours(Tail(ids), p, seen \cup {Head(ids)})

\* Cosine.get_one_sample: the neighbours of the true product without the
\* product itself and without duplicates, truncated to num_neg, each paired
\* with the true reactants, padded with all-zero fingerprints
CosineIds(p, num_neg) ==
    LET nbrs == FilterNeighbours(KnnList(p), p, {})
    IN  SubSeq(nbrs, 1, IF Len(nbrs) < num_neg THEN Len(nbrs) ELSE num_neg)

CosineSample(rxn, num_neg, rxn_type, rng) ==
    LET nbrs == CosineIds(rxn.p, num_neg)
    IN  [fps |-> [k \in 1..num_neg |->
                     IF k <= Len(nbrs) THEN RxnFp(rxn.r, nbrs[k], rxn_type)
                     ELSE ZeroFp(rxn_type)],
         rng |-> rng]

\* the mutated products Mutate.get_one_sample uses: num_neg of the pool drawn
\* without replacement, or the whole pool when it has fewer than num_neg
MutatePicks(p, num_neg, rng) ==
    LET pool == MutSmis(p)
    IN  IF Len(pool) >= num_neg
        THEN SampleNoRepl(pool, num_neg, rng)
        ELSE [picks |-> pool, rng |-> rng]

\* Mutate.get_one_sample (fingerprints): each mutated product paired with the
\* true reactants, then all-zero filler up to num_neg
MutateSample(rxn, num_neg, rxn_type, rng) ==
    LET s == MutatePicks(rxn.p, num_neg, rng)
    IN  [fps |-> [k \in 1..num_neg |->
                     IF k <= Len(s.picks) THEN RxnFp(rxn.r, s.picks[k], rxn_type)
                     ELSE ZeroFp(rxn_type)],
         rng |-> s.rng]

\* aug(rxn_smi) for a registered augmentor: [fps, rng]
AugSample(aug, rxn, rxn_type, rng) ==
    CASE aug.kind = "rdm" -> RandomSample(rxn, aug.num_neg, rxn_type, rng)
      [] aug.kind = "bit" -> BitSample(rxn, aug.num_neg, rxn_type, rng)
      [] aug.kind = "cos" -> CosineSample(rxn, aug.num_neg, rxn_type, rng)
      [] aug.kind = "mut" -> MutateSample(rxn, aug.num_neg, rxn_type, rng)

\* ------------------------------------------------------------------ inputs
Entries == [key : AugNames, num_neg : 0..MaxNeg]

\* the augmentations dict: its items in iteration order, keys distinct
Configs ==
    UNION {{c \in [1..n -> Entries] : \A a, b \in 1..n : a # b => c[a].key # c[b].key} :
              n \in 0..MaxAugs}

Corpora == UNION {[1..n -> CorpusRxns] : n \in 1..MaxCorpus}

\* corpora long enough for checkpoints, with reactions the store does not hold
BulkCorpora == UNION {[1..n -> CorpusRxns \cup {BadRxn}] : n \in 1..MaxBulk}

\* the configurations of the bulk runs: at most one augmentor, one negative
BulkConfigs == {c \in Configs : Len(c) <= 1 /\ \A k \in 1..Len(c) : c[k].num_neg = 1}

\* file names under root: the output matrix and the checkpoint shard of index i
OutputFile == <<"out", -1>>
ShardFile(i) == <<"out", i>>

VARIABLES
    augmentations,  \* the augmentations dict given to the constructors
    rxn_type,       \* "diff" or "sep"
    corpus,         \* the reaction SMILES given to precompute / load_smis
    seed,           \* the seed given to the constructors
    random_state,   \* the state of the process-wide random generator
    p_state,        \* AugmentedDataFingerprints: "none", "ok" or "failed"
    p_err,          \* the exception its constructor raised, or "none"
    augs,           \* self.augs: the registered augmentors, in order
    opened,         \* the files the pipeline has opened so far
    search_index,   \* self.cosaugmentor.search_index: "None" or "loaded"
    index_loads,    \* number of loadIndex calls, over all processes
    rxn_smis,       \* self.rxn_smis (<<>> while None)
    disk,           \* the .npz files under root: file name -> matrix (rows)
    pre,            \* the running (or last failed) precompute call of the main
                    \* process (rows: the rows built by a light-memory run,
                    \* shards: the shard indices it has saved)
    pool,           \* the process pool of a parallel precompute (ran: the
                    \* worker that built each row)
    calls,          \* precompute calls made so far
    built,          \* get_one_minibatch calls made so far
    last_mb,        \* what the last get_one_minibatch call returned
    ds,             \* ReactionDatasetFingerprints
    got,            \* what the last ReactionDatasetFingerprints.__getitem__ returned
    gets,           \* __getitem__ calls made so far
    sds,            \* ReactionDatasetSMILES
    twin,           \* two more pipeline instances of the same process
    ovl,            \* a call of remove_overlapping_rxn_smis and the files it
                    \* reads and writes
    rs,             \* Retrosim: the proposals and the CSV rows compiled from them
    gf              \* ReactionDatasetSMILES with graph features, and its cache

vars == <<augmentations, rxn_type, corpus, seed, random_state, p_state, p_err, augs, opened,
          search_index, index_loads, rxn_smis, disk, pre, pool, calls, built,
          last_mb, ds, got, gets, sds, twin, ovl, rs, gf>>

inputs == <<augmentations, rxn_type, corpus, seed>>
pipeline == <<p_state, p_err, augs, opened>>

NoMb == [row |-> <<>>, by |-> <<>>, rxn |-> [r |-> 0, p |-> 0], rng |-> 0]
NoGot == [err |-> "none", fps |-> <<>>, mask |-> <<>>, idx |-> -1, by |-> <<>>]
IdlePre == [pc |-> "idle", mode |-> "none", i |-> 0, buf |-> <<>>, cut |-> FALSE,
            err |-> "none", rows |-> <<>>, shards |-> <<>>]
NoPool == [open |-> FALSE, workers |-> 0, task |-> "none", worker |-> 0,
           index |-> "None", rng |-> 0, i |-> 0, out |-> <<>>, ran |-> <<>>,
           opens |-> 0]
NoDs == [state |-> "none", err |-> "none", data |-> <<>>, input_dim |-> 0,
         args |-> [fname |-> "None", exists |-> FALSE, onthefly |-> FALSE,
                   aug_given |-> FALSE]]
NoSds == [state |-> "none", err |-> "none", mode |-> "none", onthefly |-> FALSE,
          augs |-> <<>>,
          smiles |-> <<>>, masks |-> <<>>, by |-> <<>>, size |-> 0,
          all_smiles |-> <<>>]

\* the three phases, as lists
NoPhases == [train |-> <<>>, valid |-> <<>>, test |-> <<>>]

NoOvl == [pc |-> "none", train |-> <<>>, valid |-> <<>>, test |-> <<>>,
          set_train |-> {}, set_valid |-> {}, k |-> 0,
          overlap_idxs |-> [test_in_train |-> <<>>, test_in_valid |-> <<>>,
                            valid_in_train |-> <<>>],
          files |-> NoPhases, given |-> NoPhases,
          save_idxs |-> FALSE, idxs_file |-> FALSE, err |-> "none"]

NoRs == [pc |-> "none", all_proposed_smiles |-> <<>>, given |-> <<>>,
         clean_50k |-> NoPhases, ranks |-> NoPhases, csv |-> NoPhases, accs_calls |-> 0]

\* a cache file that does not exist (run: the construction that wrote it)
NoFile == [run |-> 0, data |-> <<>>]

NoCache == [smi |-> NoFile, mask |-> NoFile, feat |-> NoFile, feat_index |-> NoFile]

NoGf == [pc |-> "ready", mode |-> "none", size |-> 0, run |-> 0, loaded |-> FALSE,
         err |-> "none", smiles |-> <<>>, masks |-> <<>>,
         pending |-> {}, finished |-> <<>>, results |-> <<>>,
         feat |-> <<>>, feat_index |-> <<>>,
         cache |-> NoCache, item |-> <<>>, idx |-> -1]

NoTwin == [state |-> "none", augs |-> <<>>, out |-> <<>>, by |-> <<>>,
           rxn |-> [r |-> 0, p |-> 0]]

\* nothing constructed, nothing on disk
Fresh ==
    /\ random_state = 0
    /\ p_state = "none"
    /\ p_err = "none"
    /\ augs = <<>>
    /\ opened = {}
    /\ search_index = "None"
    /\ index_loads = 0
    /\ rxn_smis = <<>>
    /\ disk = <<>>
    /\ pre = IdlePre
    /\ pool = NoPool
    /\ calls = 0
    /\ built = 0
    /\ last_mb = NoMb
    /\ ds = NoDs
    /\ got = NoGot
    /\ gets = 0
    /\ sds = NoSds
    /\ twin = [i \in 1..2 |-> NoTwin]

Init ==
    /\ augmentations \in Configs
    /\ rxn_type \in RxnTypes
    /\ corpus \in Corpora
    /\ Len(augmentations) + Len(corpus) <= MaxInput
    /\ seed \in 0..MaxSeed
    /\ Fresh
    /\ ovl = NoOvl
    /\ rs = NoRs
    /\ gf = NoGf

\* the bulk runs: long corpora, small configurations
InitBulk ==
    /\ augmentations \in BulkConfigs
    /\ rxn_type = "diff"
    /\ corpus \in BulkCorpora
    /\ seed = 0
    /\ Fresh
    /\ ovl = NoOvl
    /\ rs = NoRs
    /\ gf = NoGf

\* ------------------------------------------- AugmentedDataFingerprints.__init__
\* the loop without its `continue`: every entry is registered
NeverSkip(e) == FALSE

\* `if value["num_neg"] == 0: continue`
SkipEntry(e) == e.num_neg = 0

\* self.augs.insert(0, ...) in place of append
PrependAug(as, kind, e) == <<[kind |-> kind, key |-> e.key, num_neg |-> e.num_neg]>> \o as

\* self.augs.append(augmentor.get_one_sample), the last line of every _init_*
AppendAug(as, kind, e) == Append(as, [kind |-> kind, key |-> e.key, num_neg |-> e.num_neg])

\* the loop with the name checked before num_neg: an unknown name raises
\* whatever its num_neg
RegisterEntryNameFirst(st, e) ==
    IF e.key \notin {"cos", "rdm", "bit", "mut", "crem"} THEN [st EXCEPT !.err = "ValueError"]
    ELSE IF e.num_neg = 0 THEN st
    ELSE IF e.key \in {"mut", "crem"}
         THEN [st EXCEPT !.augs = AppendAug(st.augs, "mut", e),
                         !.opened = st.opened \cup {"mut_smis"}]
    ELSE [st EXCEPT !.augs = AppendAug(st.augs, e.key, e)]

\* one turn of the registration loop on entry e; st = [augs, opened, err]
RegisterEntry(st, e) ==
    IF SkipEntry(e) THEN st
    ELSE IF e.key = "cos"
         THEN [st EXCEPT !.augs = AppendAug(st.augs, "cos", e)]
    ELSE IF e.key = "rdm"
         THEN [st EXCEPT !.augs = AppendAug(st.augs, "rdm", e)]
    ELSE IF e.key = "bit"
         THEN [st EXCEPT !.augs = AppendAug(st.augs, "bit", e)]
    ELSE IF e.key = "mut" \/ e.key = "crem"
         THEN [st EXCEPT !.augs = AppendAug(st.augs, "mut", e),
                         !.opened = st.opened \cup {"mut_smis"}]
    ELSE [st EXCEPT !.err = "ValueError"]

\* the registration loop: it ends at the first entry that raises
RECURSIVE RegisterAll(_, _)
RegisterAll(cfg, st) ==
    IF cfg = <<>> \/ st.err # "none" THEN st
    ELSE RegisterAll(Tail(cfg), RegisterEntry(st, Head(cfg)))

StoreFiles == {"smi_to_fp_dict", "fp_to_smi_dict", "mol_fps"}

Construct ==
    /\ p_state = "none"
    /\ sds.state = "none"
    /\ random_state' = seed
    /\ LET st == RegisterAll(augmentations,
                             [augs |-> <<>>, opened |-> StoreFiles, err |-> "none"])
       IN  /\ p_state' = IF st.err = "none" THEN "ok" ELSE "failed"
           /\ p_err' = st.err
           /\ augs' = st.augs
           /\ opened' = st.opened
    /\ UNCHANGED <<inputs, search_index, index_loads, rxn_smis, disk, pre, pool,
                   calls, built, last_mb, ds, got, gets, sds, twin, ovl, rs, gf>>

\* ------------------------------------------------------------ get_one_minibatch
\* the negatives of the registered augmentors, in the order of self.augs, with
\* the key of the augmentor that produced each of them
RECURSIVE NegRxnFps(_, _, _, _)
NegRxnFps(as, rxn, rt, rng) ==
    IF as = <<>> THEN [fps |-> <<>>, by |-> <<>>, rng |-> rng]
    ELSE LET s == AugSample(Head(as), rxn, rt, rng)
             rest == NegRxnFps(Tail(as), rxn, rt, s.rng)
         IN  [fps |-> s.fps \o rest.fps,
              by |-> Repeat(Head(as).key, Len(s.fps)) \o rest.by,
              rng |-> rest.rng]

\* sparse.hstack(minibatch_neg_rxn_fps): the positive left out
minibatch_without_pos(as, rxn, rt, rng) ==
    LET n == NegRxnFps(as, rxn, rt, rng)
    IN  [row |-> Flatten(n.fps), by |-> n.by, rxn |-> rxn, rng |-> n.rng]

\* sparse.hstack([pos_rxn_fp, *minibatch_neg_rxn_fps]): one flat row
get_one_minibatch(as, rxn, rt, rng) ==
    LET n == NegRxnFps(as, rxn, rt, rng)
    IN  [row |-> Flatten(<<RxnFp(rxn.r, rxn.p, rt)>> \o n.fps),
         by |-> <<"pos">> \o n.by,
         rxn |-> rxn,
         rng |-> n.rng]

HasCos(as) == \E k \in 1..Len(as) : as[k].kind = "cos"

\* the load without the `search_index is None` guard
AlwaysLoads(as, index) == HasCos(as)

\* a path without the load
NeverLoads(as, index) == FALSE

\* nmslib.init + loadIndex + setQueryTimeParams, guarded by
\* `hasattr(self, "cosaugmentor")` and `search_index is None`
NeedsIndex(as, index) == HasCos(as) /\ index = "None"

\* the test made on the first checkpoint shard instead of the output
ShardExists(d) == <<"out", 0>> \in DOMAIN d

\* `(self.root / output_filename).exists()`
OutputExists(d) == OutputFile \in DOMAIN d

\* ------------------------------------------------------------------ precompute
Modes == {"distributed", "parallel", "serial"}

\* precompute up to its branch: load_smis, the already-exists return, the
\* distributed return, the submission of precompute_helper to a fresh pool, or
\* the index load that precedes the serial loop
Precompute(mode, num_workers) ==
    /\ p_state = "ok"
    /\ pre.pc = "idle"
    /\ ds.state = "none"
    /\ calls < MaxCalls
    /\ calls' = calls + 1
    /\ rxn_smis' = corpus
    /\ IF OutputExists(disk)
       THEN /\ pre' = [IdlePre EXCEPT !.cut = TRUE]
            /\ UNCHANGED <<pool, search_index, index_loads, opened>>
       ELSE CASE mode = "distributed" ->
                 /\ pre' = IdlePre
                 /\ UNCHANGED <<pool, search_index, index_loads, opened>>
            [] mode = "parallel" ->
                 /\ pre' = [IdlePre EXCEPT !.pc = "wait", !.mode = mode]
                 /\ pool' = [open |-> TRUE, workers |-> num_workers, task |-> "queued",
                             worker |-> 0, index |-> search_index, rng |-> random_state,
                             i |-> 0,
                             out |-> <<>>, ran |-> <<>>, opens |-> pool.opens + 1]
                 /\ UNCHANGED <<search_index, index_loads, opened>>
            [] mode = "serial" ->
                 /\ pre' = [IdlePre EXCEPT !.pc = "loop", !.mode = mode]
                 /\ IF NeedsIndex(augs, search_index)
                    THEN /\ search_index' = "loaded"
                         /\ index_loads' = index_loads + 1
                         /\ opened' = opened \cup {"search_index"}
                    ELSE UNCHANGED <<search_index, index_loads, opened>>
                 /\ UNCHANGED pool
    /\ UNCHANGED <<inputs, random_state, p_state, p_err, augs, disk, built, last_mb, ds, got, gets, sds, twin, ovl, rs, gf>>

\* one turn of the serial loop: diff_fps.append(self[i]); a lookup error ends
\* the call, the rows built so far are dropped with the frame
SerialStep ==
    /\ pre.pc = "loop"
    /\ pre.i < Len(rxn_smis)
    /\ IF Raises(rxn_smis[pre.i + 1])
       THEN /\ pre' = [pre EXCEPT !.pc = "idle", !.err = "KeyError", !.buf = <<>>]
            /\ UNCHANGED <<last_mb, random_state>>
       ELSE LET mb == get_one_minibatch(augs, rxn_smis[pre.i + 1], rxn_type, random_state)
            IN  /\ pre' = [pre EXCEPT !.buf = Append(pre.buf, mb.row), !.i = pre.i + 1]
                /\ last_mb' = mb
                /\ random_state' = mb.rng
    /\ built' = built + 1
    /\ UNCHANGED <<inputs, pipeline, search_index, index_loads, rxn_smis, disk, pool,
                   calls, ds, got, gets, sds, twin, ovl, rs, gf>>

\* the rows stacked last result first
SaveReversed(d, rows) == (<<"out", -1>> :> [k \in 1..Len(rows) |-> rows[Len(rows) + 1 - k]]) @@ d

\* sparse.vstack(diff_fps) ; sparse.save_npz(root / output_filename, ...)
SaveOutput(d, rows) == (OutputFile :> rows) @@ d

SerialSave ==
    /\ pre.pc = "loop"
    /\ pre.i = Len(rxn_smis)
    /\ disk' = SaveOutput(disk, pre.buf)
    /\ pre' = IdlePre
    /\ UNCHANGED <<inputs, random_state, pipeline, search_index, index_loads, rxn_smis, pool,
                   calls, built, last_mb, ds, got, gets, sds, twin, ovl, rs, gf>>

\* a worker of the pool takes the one submitted task and enters
\* precompute_helper on its copy of the pipeline: the index load
WorkerStart(w) ==
    /\ pool.open
    /\ pool.task = "queued"
    /\ w \in 1..pool.workers
    /\ IF NeedsIndex(augs, pool.index)
       THEN /\ pool' = [pool EXCEPT !.task = "running", !.worker = w, !.index = "loaded"]
            /\ index_loads' = index_loads + 1
            /\ opened' = opened \cup {"search_index"}
       ELSE /\ pool' = [pool EXCEPT !.task = "running", !.worker = w]
            /\ UNCHANGED <<index_loads, opened>>
    /\ UNCHANGED <<inputs, random_state, p_state, p_err, augs, search_index, rxn_smis, disk, pre,
                   calls, built, last_mb, ds, got, gets, sds, twin, ovl, rs, gf>>

\* one turn of the loop of precompute_helper: out.append(self[i]); a lookup
\* error ends the task and is kept in its future
WorkerStep ==
    /\ pool.task = "running"
    /\ pool.i < Len(rxn_smis)
    /\ IF Raises(rxn_smis[pool.i + 1])
       THEN /\ pool' = [pool EXCEPT !.task = "failed", !.out = <<>>]
            /\ UNCHANGED last_mb
       ELSE LET mb == get_one_minibatch(augs, rxn_smis[pool.i + 1], rxn_type, pool.rng)
            IN  /\ pool' = [pool EXCEPT !.out = Append(pool.out, mb.row), !.i = pool.i + 1,
                                        !.rng = mb.rng,
                                        !.ran = Append(pool.ran, pool.worker)]
                /\ last_mb' = mb
    /\ built' = built + 1
    /\ UNCHANGED <<inputs, random_state, pipeline, search_index, index_loads, rxn_smis, disk, pre,
                   calls, ds, got, gets, sds, twin, ovl, rs, gf>>

\* precompute_helper returns out: the future completes
WorkerReturn ==
    /\ pool.task = "running"
    /\ pool.i = Len(rxn_smis)
    /\ pool' = [pool EXCEPT !.task = "done"]
    /\ UNCHANGED <<inputs, random_state, pipeline, search_index, index_loads, rxn_smis, disk, pre,
                   calls, built, last_mb, ds, got, gets, sds, twin, ovl, rs, gf>>

\* future.result() returns the rows or raises the error of the task; the pool
\* is shut down on leaving `with`; then vstack and save
ParallelSave ==
    /\ pre.pc = "wait"
    /\ pool.task \in {"done", "failed"}
    /\ IF pool.task = "failed"
       THEN /\ disk' = disk
            /\ pre' = [pre EXCEPT !.pc = "idle", !.err = "KeyError", !.i = pool.i]
       ELSE /\ disk' = SaveOutput(disk, pool.out)
            /\ pre' = IdlePre
    /\ pool' = [NoPool EXCEPT !.opens = pool.opens, !.workers = pool.workers,
                               !.worker = pool.worker]
    /\ UNCHANGED <<inputs, random_state, pipeline, search_index, index_loads, rxn_smis,
                   calls, built, last_mb, ds, got, gets, sds, twin, ovl, rs, gf>>

\* ------------------------------------------------------ precompute_light_memory
\* `i % 19000 == 0`, scaled down
CheckpointEvery == 2

\* a loop that never checkpoints
NeverCheckpoint(i) == FALSE

IsCheckpoint(i) == i > 0 /\ i % CheckpointEvery = 0

SaveShard(d, i, rows) == (ShardFile(i) :> rows) @@ d

\* the buffer kept after a checkpoint
KeepBuffer(chunk) == chunk

\* `diff_fps = [] # reset diff_fps list`
ResetBuffer(chunk) == <<>>

\* precompute_light_memory up to its loop: load_smis, the already-exists
\* return, the index load
PrecomputeLight ==
    /\ p_state = "ok"
    /\ pre.pc = "idle"
    /\ ds.state = "none"
    /\ calls < MaxCalls
    /\ calls' = calls + 1
    /\ rxn_smis' = corpus
    /\ IF OutputExists(disk)
       THEN /\ pre' = [IdlePre EXCEPT !.cut = TRUE]
            /\ UNCHANGED <<search_index, index_loads, opened>>
       ELSE /\ pre' = [IdlePre EXCEPT !.pc = "light", !.mode = "light"]
            /\ IF NeedsIndex(augs, search_index)
               THEN /\ search_index' = "loaded"
                    /\ index_loads' = index_loads + 1
                    /\ opened' = opened \cup {"search_index"}
               ELSE UNCHANGED <<search_index, index_loads, opened>>
    /\ UNCHANGED <<inputs, random_state, p_state, p_err, augs, disk, pool, built, last_mb, ds, got, gets, sds, twin, ovl, rs, gf>>

\* one turn of its loop: diff_fps.append(self[i]) and, at a checkpoint, the
\* save of the rows gathered since the last one
LightStep ==
    /\ pre.pc = "light"
    /\ pre.i < Len(rxn_smis)
    /\ IF Raises(rxn_smis[pre.i + 1])
       THEN /\ pre' = [pre EXCEPT !.pc = "idle", !.err = "KeyError", !.buf = <<>>]
            /\ UNCHANGED <<last_mb, random_state, disk>>
       ELSE LET mb == get_one_minibatch(augs, rxn_smis[pre.i + 1], rxn_type, random_state)
                chunk == Append(pre.buf, mb.row)
            IN  /\ last_mb' = mb
                /\ random_state' = mb.rng
                /\ IF IsCheckpoint(pre.i)
                   THEN /\ disk' = SaveShard(disk, pre.i, chunk)
                        /\ pre' = [pre EXCEPT !.buf = ResetBuffer(chunk), !.i = pre.i + 1,
                                              !.rows = Append(pre.rows, mb.row),
                                              !.shards = Append(pre.shards, pre.i)]
                   ELSE /\ disk' = disk
                        /\ pre' = [pre EXCEPT !.buf = chunk, !.i = pre.i + 1,
                                              !.rows = Append(pre.rows, mb.row)]
    /\ built' = built + 1
    /\ UNCHANGED <<inputs, pipeline, search_index, index_loads, rxn_smis, pool,
                   calls, ds, got, gets, sds, twin, ovl, rs, gf>>

\* after the loop: vstack of the last chunk (a ValueError when it is empty)
\* and its save under the index of the last reaction
LightFinish ==
    /\ pre.pc = "light"
    /\ pre.i = Len(rxn_smis)
    /\ IF pre.buf = <<>>
       THEN /\ pre' = [pre EXCEPT !.pc = "idle", !.err = "ValueError"]
            /\ disk' = disk
       ELSE /\ pre' = [pre EXCEPT !.pc = "idle", !.buf = <<>>,
                                  !.shards = Append(pre.shards, pre.i - 1)]
            /\ disk' = SaveShard(disk, pre.i - 1, pre.buf)
    /\ UNCHANGED <<inputs, random_state, pipeline, search_index, index_loads, rxn_smis, pool,
                   calls, built, last_mb, ds, got, gets, sds, twin, ovl, rs, gf>>

\* ------------------------------------------------- ReactionDatasetFingerprints
\* `.reshape(-1, self.input_dim)`
Reshape(row, d) == [k \in 1..(Len(row) \div d) |-> SubSeq(row, (k - 1) * d + 1, k * d)]

\* `torch.sum(rxn_smi_fps, axis=1).bool()`: the entries summed as they are
MaskOfSum(fps) == [k \in 1..Len(fps) |-> SumSeq(fps[k]) # 0]

\* `torch.sum(rxn_smi_fps.bool(), axis=1).bool()`
MaskOf(fps) ==
    [k \in 1..Len(fps) |->
        SumSeq([c \in 1..Len(fps[k]) |-> IF fps[k][c] # 0 THEN 1 ELSE 0]) # 0]

\* the branches of __init__ with `self.onthefly` tested before the file
DsOutcomeOnTheFlyFirst(fname, exists, onthefly, aug_given) ==
    IF fname = "None" THEN "TypeError"
    ELSE IF onthefly
         THEN IF ~aug_given THEN "AttributeError" ELSE "onthefly"
    ELSE IF exists THEN "precomp"
    ELSE "RuntimeError"

\* the outcome of ReactionDatasetFingerprints.__init__: the mode entered or
\* the exception raised.  fname is precomp_rxnfp_filename ("None": the
\* default); rxn_smis_filename and search_index_filename are given
DsOutcome(fname, exists, onthefly, aug_given) ==
    IF fname = "None" THEN "TypeError"
    ELSE IF exists THEN "precomp"
    ELSE IF onthefly
         THEN IF ~aug_given THEN "AttributeError" ELSE "onthefly"
    ELSE "RuntimeError"

DsModes == {"precomp", "onthefly"}

DsInit(fname, onthefly, aug_given) ==
    /\ ds.state = "none"
    /\ sds.state = "none"
    /\ pre.pc = "idle"
    /\ aug_given => p_state = "ok"
    /\ LET out == DsOutcome(fname, OutputExists(disk), onthefly, aug_given)
       IN  /\ ds' = [state |-> IF out \in DsModes THEN out ELSE "failed",
                     err |-> IF out \in DsModes THEN "none" ELSE out,
                     data |-> IF out = "precomp" THEN disk[OutputFile] ELSE <<>>,
                     input_dim |-> RxnDim(rxn_type),
                     args |-> [fname |-> fname, exists |-> OutputExists(disk),
                               onthefly |-> onthefly, aug_given |-> aug_given]]
           \* self.data.load_smis(rxn_smis_filename)
           /\ rxn_smis' = IF out = "onthefly" THEN corpus ELSE rxn_smis
    /\ UNCHANGED <<inputs, random_state, pipeline, search_index, index_loads, disk, pre, pool,
                   calls, built, last_mb, got, gets, sds, twin, ovl, rs, gf>>

DsLen == IF ds.state = "precomp" THEN Len(ds.data) ELSE Len(rxn_smis)

\* __getitem__(idx): row idx of the matrix, or of the pipeline (which raises
\* when the Cosine augmentor has no search index yet)
GetItem(idx) ==
    /\ ds.state \in DsModes
    /\ pre.pc = "idle"
    /\ gets < MaxGets
    /\ gets' = gets + 1
    /\ idx \in 0..(DsLen - 1)
    /\ IF ds.state = "precomp"
       THEN /\ LET fps == Reshape(ds.data[idx + 1], ds.input_dim)
               IN  got' = [err |-> "none", fps |-> fps, mask |-> MaskOf(fps),
                           idx |-> idx, by |-> <<>>]
            /\ UNCHANGED <<built, last_mb, random_state>>
       ELSE IF NeedsIndex(augs, search_index)
            THEN /\ got' = [NoGot EXCEPT !.err = "AttributeError", !.idx = idx]
                 /\ UNCHANGED <<built, last_mb, random_state>>
            ELSE /\ LET mb == get_one_minibatch(augs, rxn_smis[idx + 1], rxn_type, random_state)
                        fps == Reshape(mb.row, ds.input_dim)
                    IN  /\ last_mb' = mb
                        /\ random_state' = mb.rng
                        /\ got' = [err |-> "none", fps |-> fps, mask |-> MaskOf(fps),
                                    idx |-> idx, by |-> mb.by]
                 /\ built' = built + 1
    /\ UNCHANGED <<inputs, pipeline, search_index, index_loads, rxn_smis, disk, pre,
                   pool, calls, ds, sds, twin, ovl, rs, gf>>

\* expt_utils._worker_init_fn_nmslib_: a DataLoader worker of an on-the-fly
\* dataset gives the Cosine augmentor its search index
worker_init_fn ==
    /\ ds.state = "onthefly"
    /\ pre.pc = "idle"
    /\ NeedsIndex(augs, search_index)
    /\ search_index' = "loaded"
    /\ index_loads' = index_loads + 1
    /\ opened' = opened \cup {"search_index"}
    /\ UNCHANGED <<inputs, random_state, p_state, p_err, augs, rxn_smis, disk, pre,
                   pool, calls, built, last_mb, ds, got, gets, sds, twin, ovl, rs, gf>>

\* ------------------------------------------------------ ReactionDatasetSMILES
\* A reaction SMILES "r>>p" is the pair <<r, p>>, the empty string is <<>>
\* and the placeholder molecule "CC" is <<0>>.
EmptySmi == <<>>
CC == <<0>>

\* Random.get_one_sample with return_type "smi"
RandomSampleSmi(rxn, num_neg, rng) ==
    LET s == SampleNoRepl(MolsExcept({rxn.r, rxn.p}, 1), num_neg, rng)
    IN  [smiles |-> [k \in 1..num_neg |-> <<s.picks[k], rxn.p>>], rng |-> s.rng]

\* Mutate.get_one_sample with return_type "smi": empty strings as filler
MutateSampleSmi(rxn, num_neg, rng) ==
    LET s == MutatePicks(rxn.p, num_neg, rng)
    IN  [smiles |-> [k \in 1..num_neg |->
                        IF k <= Len(s.picks) THEN <<rxn.r, s.picks[k]>> ELSE EmptySmi],
         rng |-> s.rng]

AugSampleSmi(aug, rxn, rng) ==
    CASE aug.kind = "rdm" -> RandomSampleSmi(rxn, aug.num_neg, rng)
      [] aug.kind = "mut" -> MutateSampleSmi(rxn, aug.num_neg, rng)

\* one turn of the registration loop of ReactionDatasetSMILES.__init__:
\* _init_cosine raises NotImplementedError and there is no `bit` branch
RegisterEntrySMILES(st, e) ==
    IF SkipEntry(e) THEN st
    ELSE IF e.key = "cos"
         THEN [st EXCEPT !.err = "NotImplementedError"]
    ELSE IF e.key = "rdm"
         THEN [st EXCEPT !.augs = AppendAug(st.augs, "rdm", e)]
    ELSE IF e.key = "mut" \/ e.key = "crem"
         THEN [st EXCEPT !.augs = AppendAug(st.augs, "mut", e),
                         !.opened = st.opened \cup {"mut_smis"}]
    ELSE [st EXCEPT !.err = "ValueError"]

RECURSIVE RegisterAllSMILES(_, _)
RegisterAllSMILES(cfg, st) ==
    IF cfg = <<>> \/ st.err # "none" THEN st
    ELSE RegisterAllSMILES(Tail(cfg), RegisterEntrySMILES(st, Head(cfg)))

\* `minibatch_masks = [bool(smi) for smi in minibatch_smiles]`
MasksOfSmiles(smiles) == [k \in 1..Len(smiles) |-> smiles[k] # EmptySmi]

\* `[smi if smi else "CC" for smi in minibatch_smiles]`
FillWithCC(smiles) == [k \in 1..Len(smiles) |-> IF smiles[k] # EmptySmi THEN smiles[k] ELSE CC]

\* the minibatch of one reaction in pretrain mode: the reaction, then the
\* negatives of the augmentors in order (with the key that produced each)
RECURSIVE NegRxnSmiles(_, _, _)
NegRxnSmiles(as, rxn, rng) ==
    IF as = <<>> THEN [smiles |-> <<>>, by |-> <<>>, rng |-> rng]
    ELSE LET s == AugSampleSmi(Head(as), rxn, rng)
             rest == NegRxnSmiles(Tail(as), rxn, s.rng)
         IN  [smiles |-> s.smiles \o rest.smiles,
              by |-> Repeat(Head(as).key, Len(s.smiles)) \o rest.by,
              rng |-> rest.rng]

\* `self.rxn_smis[:1000]`, scaled down
PretrainCap == 1

FirstRxns(rxns) == SubSeq(rxns, 1, IF Len(rxns) < PretrainCap THEN Len(rxns) ELSE PretrainCap)

\* get_smiles_and_masks, pretrain: one minibatch per reaction of its argument
RECURSIVE PretrainMinibatches(_, _, _)
PretrainMinibatches(as, rxns, rng) ==
    IF rxns = <<>> THEN [smiles |-> <<>>, masks |-> <<>>, by |-> <<>>, rng |-> rng]
    ELSE LET n == NegRxnSmiles(as, Head(rxns), rng)
             mb == <<<<Head(rxns).r, Head(rxns).p>>>> \o n.smiles
             rest == PretrainMinibatches(as, Tail(rxns), n.rng)
         IN  [smiles |-> <<FillWithCC(mb)>> \o rest.smiles,
              masks |-> <<MasksOfSmiles(mb)>> \o rest.masks,
              by |-> <<<<"pos">> \o n.by>> \o rest.by,
              rng |-> rest.rng]

\* the proposals CSV: one data row per reaction with its product, its true
\* precursors and NCands candidate columns, unused columns holding 9999
NCands == 4
Placeholder == 9999
CsvRow(rxn) ==
    [prod_smi |-> rxn.p, true_precursors |-> rxn.r,
     cands |-> [j \in 1..NCands |-> IF j < rxn.p THEN j ELSE Placeholder]]

\* the candidates kept for one row when only the true precursors are dropped
RECURSIVE KeptCandsWithPlaceholder(_, _)
KeptCandsWithPlaceholder(cands, r_true) ==
    IF cands = <<>> THEN <<>>
    ELSE IF Head(cands) = r_true
         THEN KeptCandsWithPlaceholder(Tail(cands), r_true)
         ELSE <<Head(cands)>> \o KeptCandsWithPlaceholder(Tail(cands), r_true)

\* the candidates kept for one row: not the true precursors, not 9999
RECURSIVE KeptCands(_, _)
KeptCands(cands, r_true) ==
    IF cands = <<>> THEN <<>>
    ELSE IF Head(cands) = r_true \/ Head(cands) = Placeholder
         THEN KeptCands(Tail(cands), r_true)
         ELSE <<Head(cands)>> \o KeptCands(Tail(cands), r_true)

\* self.all_smiles: the rows of csv.DictReader with `if i == 0: continue`
AllSmiles(rows) ==
    [k \in 1..(Len(rows) - 1) |->
        LET row == rows[k + 1]
            kept == KeptCands(row.cands, row.true_precursors)
        IN  <<<<row.true_precursors, row.prod_smi>>>> \o
            [j \in 1..Len(kept) |-> <<kept[j], row.prod_smi>>]]

\* the loop over rxn_smis_with_neg[1:]: append until the minibatch is full
RECURSIVE FillMinibatch(_, _, _)
FillMinibatch(mb, rest, size) ==
    IF rest = <<>> THEN [full |-> FALSE, mb |-> mb]
    ELSE LET mb2 == Append(mb, Head(rest))
         IN  IF Len(mb2) = size THEN [full |-> TRUE, mb |-> mb2]
             ELSE FillMinibatch(mb2, Tail(rest), size)

\* `while len(minibatch_smiles) < minibatch_size: append("")`
PadMinibatch(mb, size) ==
    IF Len(mb) < size THEN mb \o Repeat(EmptySmi, size - Len(mb)) ELSE mb

\* get_smiles_and_masks, finetune
RECURSIVE FinetuneMinibatches(_, _)
FinetuneMinibatches(all, size) ==
    IF all = <<>> THEN [smiles |-> <<>>, masks |-> <<>>]
    ELSE LET f == FillMinibatch(<<Head(all)[1]>>, Tail(Head(all)), size)
             rest == FinetuneMinibatches(Tail(all), size)
         IN  IF f.full
             THEN [smiles |-> <<f.mb>> \o rest.smiles,
                   masks |-> <<MasksOfSmiles(f.mb)>> \o rest.masks]
             ELSE IF Len(f.mb) = 1 THEN rest
             ELSE LET mb == PadMinibatch(f.mb, size)
                  IN  [smiles |-> <<FillWithCC(mb)>> \o rest.smiles,
                       masks |-> <<MasksOfSmiles(mb)>> \o rest.masks]

MaxMinibatch == 4
SmilesModes == {"pretrain", "finetune", "neither"}

\* ReactionDatasetSMILES.__init__ without graph features: registration or
\* the CSV read, then precompute(), which is get_smiles_and_masks.  An
\* experiment has one representation: it builds the SMILES dataset or the
\* fingerprint pipeline and dataset, never both.
ConstructSMILES(onthefly, mode, minibatch_size) ==
    /\ sds.state = "none"
    /\ p_state = "none"
    /\ ds.state = "none"
    /\ IF ~onthefly
       THEN /\ sds' = [NoSds EXCEPT !.state = "failed", !.err = "NotImplementedError",
                                    !.mode = mode, !.onthefly = onthefly]
            /\ random_state' = seed
       ELSE IF mode = "pretrain"
       THEN LET st == RegisterAllSMILES(augmentations,
                          [augs |-> <<>>, opened |-> StoreFiles, err |-> "none"])
                m == PretrainMinibatches(st.augs, FirstRxns(corpus), seed)
            IN  IF st.err # "none"
                THEN /\ sds' = [NoSds EXCEPT !.state = "failed", !.err = st.err,
                                             !.mode = mode, !.onthefly = onthefly]
                     /\ random_state' = seed
                ELSE /\ sds' = [state |-> "ok", err |-> "none", mode |-> mode,
                                onthefly |-> onthefly, augs |-> st.augs, smiles |-> m.smiles,
                                masks |-> m.masks, by |-> m.by,
                                size |-> minibatch_size, all_smiles |-> <<>>]
                     /\ random_state' = m.rng
       ELSE IF mode = "finetune"
       THEN LET all == AllSmiles([k \in 1..Len(corpus) |-> CsvRow(corpus[k])])
                m == FinetuneMinibatches(all, minibatch_size)
            IN  /\ sds' = [state |-> "ok", err |-> "none", mode |-> mode,
                           onthefly |-> onthefly, augs |-> <<>>, smiles |-> m.smiles, masks |-> m.masks,
                           by |-> <<>>, size |-> minibatch_size, all_smiles |-> all]
                /\ random_state' = seed
       \* neither do_pretrain nor do_finetune: get_smiles_and_masks raises
       ELSE /\ sds' = [NoSds EXCEPT !.state = "failed", !.err = "ValueError",
                                    !.mode = mode, !.onthefly = onthefly]
            /\ random_state' = seed
    /\ UNCHANGED <<inputs, pipeline, search_index, index_loads, rxn_smis, disk, pre,
                   pool, calls, built, last_mb, ds, got, gets, twin, ovl, rs, gf>>

\* ------------------------------------------------- two pipelines, one process
\* AugmentedDataFingerprints(...) once more in the same process, with the same
\* arguments: seed_everything(seed) reseeds the generator of the process
TwinConstruct(i) ==
    /\ twin[i].state = "none"
    /\ p_state = "none"
    /\ sds.state = "none"
    /\ random_state' = seed
    /\ LET st == RegisterAll(augmentations,
                             [augs |-> <<>>, opened |-> StoreFiles, err |-> "none"])
       IN  twin' = [twin EXCEPT ![i] = [NoTwin EXCEPT
                       !.state = IF st.err = "none" THEN "ok" ELSE "failed",
                       !.augs = st.augs]]
    /\ UNCHANGED <<inputs, pipeline, search_index, index_loads, rxn_smis, disk, pre,
                   pool, calls, built, last_mb, ds, got, gets, sds, ovl, rs, gf>>

\* get_one_minibatch(rxn) on instance i (no Cosine augmentor: its index is
\* not loaded), the first one asked of it
TwinSample(i, rxn) ==
    /\ twin[i].state = "ok"
    /\ twin[i].out = <<>>
    /\ ~HasCos(twin[i].augs)
    /\ \E k \in 1..Len(corpus) : corpus[k] = rxn
    /\ LET n == NegRxnFps(twin[i].augs, rxn, rxn_type, random_state)
       IN  /\ twin' = [twin EXCEPT ![i] = [@ EXCEPT !.out = <<n.fps>>, !.by = n.by,
                                                    !.rxn = rxn]]
           /\ random_state' = n.rng
    /\ UNCHANGED <<inputs, pipeline, search_index, index_loads, rxn_smis, disk, pre,
                   pool, calls, built, last_mb, ds, got, gets, sds, ovl, rs, gf>>

\* ----------------------------------------------- remove_overlapping_rxn_smis
\* the cleaned reaction SMILES of one phase: a list without repeats
PhaseLists ==
    UNION {{L \in [1..n -> 1..NSmis] : \A a, b \in 1..n : a # b => L[a] # L[b]} :
              n \in 0..MaxList}

\* set(rxn_smi_phases[phase])
SetOf(L) == {L[k] : k \in 1..Len(L)}

\* list.index(x): the position of the first x, counted from 0; -1 stands for
\* the ValueError of a list that does not hold x
IndexOf(L, x) ==
    IF \E k \in 1..Len(L) : L[k] = x
    THEN (CHOOSE k \in 1..Len(L) : L[k] = x /\ \A j \in 1..(k - 1) : L[j] # x) - 1
    ELSE -1

\* list.pop(idx), idx counted from 0
Pop(L, idx) == RemoveAt(L, idx + 1)

\* everything but ovl
rest == <<inputs, random_state, pipeline, search_index, index_loads, rxn_smis, disk,
          pre, pool, calls, built, last_mb, ds, got, gets, sds, twin, rs, gf>>

\* the call up to its loops: the return when the overlap_idxs file exists,
\* else the load of the three phases and of their sets
RemoveOverlapStart ==
    /\ ovl.pc = "ready"
    /\ IF ovl.idxs_file
       THEN ovl' = [ovl EXCEPT !.pc = "exists"]
       ELSE ovl' = [ovl EXCEPT !.pc = "test",
                               !.train = ovl.files.train,
                               !.valid = ovl.files.valid,
                               !.test = ovl.files.test,
                               !.set_train = SetOf(ovl.files.train),
                               !.set_valid = SetOf(ovl.files.valid),
                               !.k = 0]
    /\ UNCHANGED rest

\* one turn of `for i, rxn_smi in enumerate(rxn_smi_phases['test'])`
TestIteration ==
    /\ ovl.pc = "test"
    /\ ovl.k < Len(ovl.test)
    /\ LET rxn_smi == ovl.test[ovl.k + 1]
       IN  IF rxn_smi \in ovl.set_train
           THEN LET overlap_idx == IndexOf(ovl.train, rxn_smi)
                IN  IF overlap_idx < 0
                    THEN ovl' = [ovl EXCEPT !.pc = "failed", !.err = "ValueError"]
                    ELSE ovl' = [ovl EXCEPT
                            !.overlap_idxs.test_in_train = Append(@, overlap_idx),
                            !.train = Pop(@, overlap_idx),
                            !.k = @ + 1]
           ELSE IF rxn_smi \in ovl.set_valid
           THEN LET overlap_idx == IndexOf(ovl.valid, rxn_smi)
                IN  IF overlap_idx < 0
                    THEN ovl' = [ovl EXCEPT !.pc = "failed", !.err = "ValueError"]
                    ELSE ovl' = [ovl EXCEPT
                            !.overlap_idxs.test_in_valid = Append(@, overlap_idx),
                            !.valid = Pop(@, overlap_idx),
                            !.k = @ + 1]
           ELSE ovl' = [ovl EXCEPT !.k = @ + 1]
    /\ UNCHANGED rest

\* the first loop ends, the second begins
TestLoopExit ==
    /\ ovl.pc = "test"
    /\ ovl.k = Len(ovl.test)
    /\ ovl' = [ovl EXCEPT !.pc = "valid", !.k = 0]
    /\ UNCHANGED rest

\* one turn of `for i, rxn_smi in enumerate(rxn_smi_phases['valid'])`
ValidIteration ==
    /\ ovl.pc = "valid"
    /\ ovl.k < Len(ovl.valid)
    /\ LET rxn_smi == ovl.valid[ovl.k + 1]
       IN  IF rxn_smi \in ovl.set_train
           THEN LET overlap_idx == IndexOf(ovl.train, rxn_smi)
                IN  IF overlap_idx < 0
                    THEN ovl' = [ovl EXCEPT !.pc = "failed", !.err = "ValueError"]
                    ELSE ovl' = [ovl EXCEPT
                            !.overlap_idxs.valid_in_train = Append(@, overlap_idx),
                            !.train = Pop(@, overlap_idx),
                            !.k = @ + 1]
           ELSE ovl' = [ovl EXCEPT !.k = @ + 1]
    /\ UNCHANGED rest

\* the three phases dumped over the files they were read from, and the
\* overlap_idxs file when save_idxs
SaveLists ==
    /\ ovl.pc = "valid"
    /\ ovl.k = Len(ovl.valid)
    /\ ovl' = [ovl EXCEPT !.pc = "done",
                          !.files = [train |-> ovl.train, valid |-> ovl.valid,
                                     test |-> ovl.test],
                          !.idxs_file = ovl.save_idxs]
    /\ UNCHANGED rest

\* ------------------------------------------------ Retrosim._compile_into_csv
\* what propose_one returns for a product: up to topk precursors
ProposalLists == UNION {[1..n -> 1..NPrecs] : n \in 0..TopK}

\* the reactions of a phase of clean_50k
RetroRxns == [r : 1..NPrecs, p : 1..NProds]

\* `precursors.extend(['9999'] * (self.topk - len(precursors)))`
PadToTopK(L) == IF Len(L) < TopK THEN L \o Repeat(Placeholder, TopK - Len(L)) ELSE L

\* the padding loop over the reactions of all phases: the list of a product is
\* the one object in all_proposed_smiles, padded in place
RECURSIVE PadAll(_, _)
PadAll(store, rxns) ==
    IF rxns = <<>> THEN store
    ELSE PadAll([store EXCEPT ![Head(rxns).p] = PadToTopK(@)], Tail(rxns))

\* the rank of the first proposal equal to the true precursors, counted from 0,
\* or 9999
RankOf(L, r_true) ==
    IF \E k \in 1..Len(L) : L[k] = r_true
    THEN (CHOOSE k \in 1..Len(L) : L[k] = r_true /\ \A j \in 1..(k - 1) : L[j] # r_true) - 1
    ELSE Placeholder

\* `all_proposed_precursors.pop(rank)` ; `.append('9999')` at the first match
PopTrue(L, r_true) ==
    IF RankOf(L, r_true) = Placeholder THEN L
    ELSE Append(RemoveAt(L, RankOf(L, r_true) + 1), Placeholder)

\* the loop of _calc_accs over the train reactions: ranks, and the lists popped
\* in place
RECURSIVE CalcTrain(_, _)
CalcTrain(store, rxns) ==
    IF rxns = <<>> THEN [store |-> store, ranks |-> <<>>]
    ELSE LET rxn == Head(rxns)
             next == CalcTrain([store EXCEPT ![rxn.p] = PopTrue(@, rxn.r)], Tail(rxns))
         IN  [store |-> next.store,
              ranks |-> <<RankOf(store[rxn.p], rxn.r)>> \o next.ranks]

\* the loop of _calc_accs over the valid or test reactions: ranks only
RanksOf(store, rxns) == [k \in 1..Len(rxns) |-> RankOf(store[rxns[k].p], rxns[k].r)]

\* the rows of one phase: proposed_precursors[phase][idx] is the list object of
\* the product of reaction idx
RowsOfPhase(store, rxns) == [k \in 1..Len(rxns) |-> store[rxns[k].p]]

\* everything but rs
rest_rs == <<inputs, random_state, pipeline, search_index, index_loads, rxn_smis, disk,
             pre, pool, calls, built, last_mb, ds, got, gets, sds, twin, ovl, gf>>

\* the first loop of _compile_into_csv: every list padded to topk
CompilePad ==
    /\ rs.pc = "proposed"
    /\ rs' = [rs EXCEPT !.pc = "compiled",
                        !.all_proposed_smiles =
                            PadAll(@, rs.clean_50k.train \o rs.clean_50k.valid
                                        \o rs.clean_50k.test)]
    /\ UNCHANGED rest_rs

\* one call of _calc_accs; _compile_into_csv makes two
CalcAccs ==
    /\ rs.pc = "compiled"
    /\ rs.accs_calls < 2
    /\ LET t == CalcTrain(rs.all_proposed_smiles, rs.clean_50k.train)
       IN  rs' = [rs EXCEPT !.all_proposed_smiles = t.store,
                            !.accs_calls = @ + 1,
                            !.ranks = IF rs.accs_calls = 0
                                      THEN [train |-> t.ranks,
                                            valid |-> RanksOf(t.store, rs.clean_50k.valid),
                                            test |-> RanksOf(t.store, rs.clean_50k.test)]
                                      ELSE @]
    /\ UNCHANGED rest_rs

\* the rows zipped and written, one CSV per phase
SaveCsv ==
    /\ rs.pc = "compiled"
    /\ rs.accs_calls = 2
    /\ rs' = [rs EXCEPT !.pc = "saved",
                        !.csv = [train |-> RowsOfPhase(rs.all_proposed_smiles, rs.clean_50k.train),
                                 valid |-> RowsOfPhase(rs.all_proposed_smiles, rs.clean_50k.valid),
                                 test |-> RowsOfPhase(rs.all_proposed_smiles, rs.clean_50k.test)]]
    /\ UNCHANGED rest_rs

\* ------------------------- ReactionDatasetSMILES.precompute, graph features
\* the arrays get_features_per_graph returns for a molecule, and the four whose
\* lengths are returned with them (a_graphs has one row per row of a_features,
\* b_graphs one per row of b_features)
Arrays == {"a_scopes", "b_scopes", "a_features", "b_features", "a_graphs", "b_graphs"}
Indexed == {"a_scopes", "b_scopes", "a_features", "b_features"}
IndexOfArray(A) ==
    IF A = "a_graphs" THEN "a_features" ELSE IF A = "b_graphs" THEN "b_features" ELSE A

\* the number of rows of an array of molecule m: scopes of one row, one row
\* of a_features per atom, one row of b_features per bond
NumRows(A, m) ==
    CASE A = "a_scopes" -> 1
      [] A = "b_scopes" -> 1
      [] A = "a_features" -> (m % 2) + 1
      [] A = "b_features" -> (m % 3) + 1

\* the rows computed for molecule m, the j-th of minibatch i
MolRows(A, i, j, m) == [x \in 1..NumRows(IndexOfArray(A), m) |-> <<i, j, m, x>>]

\* `.split(">>")[0]` and `.split(">>")[-1]`
FirstPart(smi) == smi[1]
LastPart(smi) == smi[Len(smi)]

\* the molecules of a minibatch: the reactants of the true reaction then every
\* product (pretrain), or its product then every reactant side (finetune)
MinibatchMols(mode, rxn_smiles) ==
    IF mode = "pretrain"
    THEN <<FirstPart(rxn_smiles[1])>> \o [k \in 1..Len(rxn_smiles) |-> LastPart(rxn_smiles[k])]
    ELSE <<LastPart(rxn_smiles[1])>> \o [k \in 1..Len(rxn_smiles) |-> FirstPart(rxn_smiles[k])]

\* get_features_per_graph_helper(_finetune) on (i, rxn_smiles)
Helper(mode, i, rxn_smiles) ==
    LET mols == MinibatchMols(mode, rxn_smiles)
        n == Len(mols)
    IN  [arrays |-> [A \in Arrays |-> Flatten([j \in 1..n |-> MolRows(A, i, j, mols[j])])],
         lens |-> [A \in Indexed |-> [j \in 1..n |-> NumRows(A, mols[j])]],
         minibatch_mol_indexes |-> [j \in 1..n |-> i * n + j - 1]]

\* the results taken in the order the workers finished
AsCompleted(finished) == finished

\* Executor.map: the results in the order of the inputs
InInputOrder(finished) == [k \in 1..Len(finished) |-> k - 1]

\* np.cumsum
CumSum(q) == [k \in 1..Len(q) |-> SumSeq(SubSeq(q, 1, k))]

\* _lengths2indexes: rows [start, end) from the lengths of all molecules
lengths2indexes(lens) ==
    LET ends == CumSum(Flatten(lens))
    IN  [k \in 1..Len(ends) |-> <<IF k = 1 THEN 0 ELSE ends[k - 1], ends[k]>>]

\* array[start:end]
Slice(arr, se) ==
    SubSeq(arr, se[1] + 1, IF se[2] < Len(arr) THEN se[2] ELSE Len(arr))

\* the cache is used when one of its files exists
CacheHitAny(c) ==
    c.smi.run # 0 \/ c.mask.run # 0 \/ c.feat.run # 0 \/ c.feat_index.run # 0

\* `all(os.path.exists(cache) for cache in [...])`
CacheHit(c) ==
    c.smi.run # 0 /\ c.mask.run # 0 /\ c.feat.run # 0 /\ c.feat_index.run # 0

\* everything but gf and the generator
rest_gf == <<inputs, pipeline, search_index, index_loads, rxn_smis, disk,
             pre, pool, calls, built, last_mb, ds, got, gets, sds, twin, ovl, rs>>

\* ReactionDatasetSMILES(args with do_compute_graph_feat, onthefly=True) up to
\* the pool: seed_everything, registration or the CSV read, then precompute():
\* the load of the four cache files, or get_smiles_and_masks and the map of the
\* helper over the minibatches. The cache files are named after the input
\* file (the pickle of rxn_smis_filename in pretrain mode, the CSV of
\* proposals_csv_filename in finetune mode), so a later construction on these
\* files has the mode of the first.
GraphConstruct(mode, minibatch_size) ==
    /\ gf.pc \in {"ready", "done", "failed"}
    /\ gf.run < MaxRuns
    /\ gf.mode \in {"none", mode}
    /\ LET st == IF mode = "pretrain"
                 THEN RegisterAllSMILES(augmentations,
                          [augs |-> <<>>, opened |-> StoreFiles, err |-> "none"])
                 ELSE [augs |-> <<>>, opened |-> {}, err |-> "none"]
           m == IF mode = "pretrain"
                THEN PretrainMinibatches(st.augs, FirstRxns(corpus), seed)
                ELSE LET f == FinetuneMinibatches(
                                  AllSmiles([k \in 1..Len(corpus) |-> CsvRow(corpus[k])]),
                                  minibatch_size)
                     IN  [smiles |-> f.smiles, masks |-> f.masks, rng |-> seed]
           new == [NoGf EXCEPT !.mode = mode, !.size = minibatch_size,
                               !.run = gf.run + 1, !.cache = gf.cache]
       IN  IF st.err # "none"
           THEN /\ gf' = [new EXCEPT !.pc = "failed", !.err = st.err]
                /\ random_state' = seed
           ELSE IF CacheHit(gf.cache)
           THEN /\ gf' = [new EXCEPT !.pc = "done", !.loaded = TRUE,
                                     !.smiles = gf.cache.smi.data,
                                     !.masks = gf.cache.mask.data,
                                     !.feat = gf.cache.feat.data,
                                     !.feat_index = gf.cache.feat_index.data]
                /\ random_state' = seed
           ELSE /\ gf' = [new EXCEPT !.pc = "map", !.smiles = m.smiles, !.masks = m.masks,
                                     !.pending = {k - 1 : k \in 1..Len(m.smiles)}]
                /\ random_state' = m.rng
    /\ UNCHANGED rest_gf

\* a worker of the pool returns the result of one input
WorkerFinish(i) ==
    /\ gf.pc = "map"
    /\ i \in gf.pending
    /\ gf' = [gf EXCEPT !.pending = @ \ {i},
                        !.finished = Append(@, i),
                        !.results = (i :> Helper(gf.mode, i, gf.smiles[i + 1])) @@ @]
    /\ UNCHANGED <<rest_gf, random_state>>

\* the results of the map unzipped, stacked and concatenated, the indexes built
\* (zip(*[]) cannot be unpacked; np.stack wants rows of one length)
Gather ==
    /\ gf.pc = "map"
    /\ gf.pending = {}
    /\ LET order == InInputOrder(gf.finished)
           res == [k \in 1..Len(order) |-> gf.results[order[k]]]
       IN  IF res = <<>>
              \/ \E k \in 1..Len(res) :
                    Len(res[k].minibatch_mol_indexes) # Len(res[1].minibatch_mol_indexes)
           THEN gf' = [gf EXCEPT !.pc = "failed", !.err = "ValueError"]
           ELSE gf' = [gf EXCEPT
                    !.pc = "cache",
                    !.feat = [A \in Arrays |->
                                 Flatten([k \in 1..Len(res) |-> res[k].arrays[A]])],
                    !.feat_index =
                        [minibatch_mol_indexes |->
                             [k \in 1..Len(res) |-> res[k].minibatch_mol_indexes],
                         indexes |-> [A \in Indexed |->
                             lengths2indexes([k \in 1..Len(res) |-> res[k].lens[A]])]]]
    /\ UNCHANGED <<rest_gf, random_state>>

\* the four cache files written, the pool shut down
SaveCache ==
    /\ gf.pc = "cache"
    /\ gf' = [gf EXCEPT !.pc = "done",
                        !.cache = [smi |-> [run |-> gf.run, data |-> gf.smiles],
                                   mask |-> [run |-> gf.run, data |-> gf.masks],
                                   feat |-> [run |-> gf.run, data |-> gf.feat],
                                   feat_index |-> [run |-> gf.run, data |-> gf.feat_index]]]
    /\ UNCHANGED <<rest_gf, random_state>>

\* __getitem__(idx) with graph features: for each molecule of the minibatch the
\* slices of the six arrays
GraphGetItem(idx) ==
    /\ gf.pc = "done"
    /\ idx \in 0..(Len(gf.smiles) - 1)
    /\ LET mmi == gf.feat_index.minibatch_mol_indexes[idx + 1]
           ixs == gf.feat_index.indexes
       IN  gf' = [gf EXCEPT !.idx = idx,
                            !.item = [j \in 1..Len(mmi) |->
                                [A \in Arrays |->
                                    Slice(gf.feat[A], ixs[IndexOfArray(A)][mmi[j] + 1])]]]
    /\ UNCHANGED <<rest_gf, random_state>>

\* ------------------------------------------------------------- specification
\* the pipeline: its construction and every precompute path
Next ==
    \/ Construct
    \/ \E mode \in Modes, w \in 1..MaxWorkers : Precompute(mode, w)
    \/ SerialStep
    \/ SerialSave
    \/ \E w \in 1..MaxWorkers : WorkerStart(w)
    \/ WorkerStep
    \/ WorkerReturn
    \/ ParallelSave
    \/ PrecomputeLight
    \/ LightStep
    \/ LightFinish

Spec == Init /\ [][Next]_vars

\* the same pipeline on the bulk inputs
SpecBulk == InitBulk /\ [][Next]_vars

\* the datasets of an experiment: the fingerprint dataset over a pipeline
\* precomputed serially or used on the fly, or the SMILES dataset
NextDataset ==
    \/ Construct
    \/ Precompute("serial", 1)
    \/ SerialStep
    \/ SerialSave
    \/ \E fname \in {"None", "out"}, onthefly, aug_given \in BOOLEAN :
          DsInit(fname, onthefly, aug_given)
    \/ worker_init_fn
    \/ \E idx \in 0..(MaxCorpus - 1) : GetItem(idx)
    \/ \E onthefly \in BOOLEAN, mode \in SmilesModes, size \in 1..MaxMinibatch :
          ConstructSMILES(onthefly, mode, size)

SpecDataset == Init /\ [][NextDataset]_vars

\* the SMILES dataset on the same inputs
NextSMILES ==
    \E onthefly \in BOOLEAN, mode \in SmilesModes, size \in 1..MaxMinibatch :
       ConstructSMILES(onthefly, mode, size)

SpecSMILES == Init /\ [][NextSMILES]_vars

\* two pipeline instances built and sampled in one process
NextTwin ==
    \/ \E i \in 1..2 : TwinConstruct(i)
    \/ \E i \in 1..2, rxn \in CorpusRxns : TwinSample(i, rxn)

SpecTwin == Init /\ [][NextTwin]_vars

\* the cleaned phases on disk before remove_overlapping_rxn_smis is called
InitOverlap ==
    /\ augmentations = <<>>
    /\ rxn_type = "diff"
    /\ corpus \in [1..1 -> CorpusRxns]
    /\ seed = 0
    /\ Fresh
    /\ \E tr \in PhaseLists, va \in PhaseLists, te \in PhaseLists, sv \in BOOLEAN,
          ex \in BOOLEAN :
          LET f == [train |-> tr, valid |-> va, test |-> te]
          IN  ovl = [NoOvl EXCEPT !.pc = "ready", !.files = f, !.given = f,
                                   !.save_idxs = sv, !.idxs_file = ex]
    /\ rs = NoRs
    /\ gf = NoGf

NextOverlap ==
    \/ RemoveOverlapStart
    \/ TestIteration
    \/ TestLoopExit
    \/ ValidIteration
    \/ SaveLists

SpecOverlap == InitOverlap /\ [][NextOverlap]_vars

\* the proposals of every product and the reactions of the three phases
InitRetrosim ==
    /\ augmentations = <<>>
    /\ rxn_type = "diff"
    /\ corpus = <<[r |-> 1, p |-> 2]>>
    /\ seed = 0
    /\ Fresh
    /\ ovl = NoOvl
    /\ gf = NoGf
    /\ \E store \in [1..NProds -> ProposalLists],
          tr \in UNION {[1..n -> RetroRxns] : n \in 1..2},
          va \in [1..1 -> RetroRxns] :
          rs = [NoRs EXCEPT !.pc = "proposed", !.all_proposed_smiles = store,
                            !.given = store,
                            !.clean_50k = [train |-> tr, valid |-> va,
                                           test |-> <<[r |-> NPrecs, p |-> NProds]>>]]

NextRetrosim ==
    \/ CompilePad
    \/ CalcAccs
    \/ SaveCsv

SpecRetrosim == InitRetrosim /\ [][NextRetrosim]_vars

\* a cache file left by an earlier process
OldFile == [run |-> -1, data |-> <<>>]

\* the graph-feature dataset: any of the four cache files may be there
InitGraph ==
    /\ augmentations \in BulkConfigs
    /\ rxn_type = "diff"
    /\ corpus \in UNION {[1..n -> CorpusRxns] : n \in 1..MaxGraphCorpus}
    /\ seed = 0
    /\ Fresh
    /\ ovl = NoOvl
    /\ rs = NoRs
    /\ \E c \in [{"smi", "mask", "feat", "feat_index"} -> {NoFile, OldFile}] :
          gf = [NoGf EXCEPT !.cache = [smi |-> c["smi"], mask |-> c["mask"],
                                       feat |-> c["feat"],
                                       feat_index |-> c["feat_index"]]]

NextGraph ==
    \/ \E mode \in {"pretrain", "finetune"}, size \in 1..MaxMinibatch :
          GraphConstruct(mode, size)
    \/ \E i \in 0..(MaxGraphCorpus - 1) : WorkerFinish(i)
    \/ Gather
    \/ SaveCache
    \/ \E idx \in 0..(MaxGraphCorpus - 1) : GraphGetItem(idx)

SpecGraph == InitGraph /\ [][NextGraph]_vars

\* ---------------------------------------------------------------- properties
KnownNames == {"cos", "rdm", "bit", "mut", "crem"}

\* the sum of num_neg over the entries of a configuration
SumNumNeg(cfg) == SumSeq([k \in 1..Len(cfg) |-> cfg[k].num_neg])

\* the keys of the entries with num_neg # 0
ActiveKeys(cfg) == {cfg[k].key : k \in {j \in 1..Len(cfg) : cfg[j].num_neg # 0}}

\* who produced each negative of a minibatch, read off the configuration
RECURSIVE ExpectedBy(_)
ExpectedBy(cfg) ==
    IF cfg = <<>> THEN <<>>
    ELSE Repeat(Head(cfg).key, Head(cfg).num_neg) \o ExpectedBy(Tail(cfg))

\* ReactionDatasetFingerprints.__getitem__ has returned a sample
Returned == got.idx >= 0 /\ got.err = "none"

\* C1: the minibatch returned for a reaction and its mask have the same
\* length K, and K is 1 + the sum of num_neg over the active augmentors; the
\* row get_one_minibatch builds holds K reaction fingerprints.
C1_MinibatchLength ==
    /\ Returned => /\ Len(got.fps) = Len(got.mask)
                   /\ Len(got.mask) = 1 + SumNumNeg(augmentations)
    /\ last_mb # NoMb =>
          Len(last_mb.row) = (1 + SumNumNeg(augmentations)) * RxnDim(rxn_type)

C1_Witness ==
    /\ Returned
    /\ ds.state = "onthefly"
    /\ Len(augs) = 2
    /\ Len(got.mask) = 3

\* C2: mask[0] is True for every minibatch __getitem__ returns, whatever the
\* reaction and the reaction-fingerprint type.
C2_PositiveMaskTrue == Returned => got.mask[1]

\* C3: in every minibatch get_one_minibatch builds, position 0 is the
\* positive reaction fingerprint and the negatives follow grouped by
\* augmentor in the iteration order of the configuration, entries with
\* num_neg = 0 left out.
C3_RegistrationOrder ==
    last_mb # NoMb =>
       /\ SubSeq(last_mb.row, 1, RxnDim(rxn_type))
             = RxnFp(last_mb.rxn.r, last_mb.rxn.p, rxn_type)
       /\ last_mb.by = <<"pos">> \o ExpectedBy(augmentations)

C3_Witness ==
    /\ last_mb # NoMb
    /\ Len(augs) = 2
    /\ Len(last_mb.by) = 3
    /\ last_mb.by[2] # last_mb.by[3]

\* C4: a call of precompute or precompute_light_memory made when the output
\* file exists returns at once: no minibatch is built, no pool is created, no
\* search index is loaded, no file is opened and the disk is left as it was.
C4_ShortCircuit ==
    [][(calls' = calls + 1 /\ OutputFile \in DOMAIN disk) =>
          /\ built' = built
          /\ last_mb' = last_mb
          /\ pool' = pool
          /\ search_index' = search_index
          /\ index_loads' = index_loads
          /\ opened' = opened
          /\ disk' = disk
          /\ pre'.pc = "idle"
          /\ pre'.cut]_vars

C4_Witness ==
    /\ pre.cut
    /\ calls = 2
    /\ built = Len(corpus)
    /\ OutputFile \in DOMAIN disk

\* the rows precompute is to write: the minibatches of the reactions in corpus
\* order, drawn one after the other from the generator in state rng
RECURSIVE ExpectedRows(_, _, _, _)
ExpectedRows(as, rxns, rt, rng) ==
    IF rxns = <<>> THEN <<>>
    ELSE LET mb == get_one_minibatch(as, Head(rxns), rt, rng)
         IN  <<mb.row>> \o ExpectedRows(as, Tail(rxns), rt, mb.rng)

\* C5: the matrix precompute writes has one row per corpus reaction, row r
\* being the minibatch of corpus reaction r, whatever the number of workers
\* and whichever worker ran the task.
C5_RowOrder ==
    OutputExists(disk) =>
       /\ Len(disk[OutputFile]) = Len(corpus)
       /\ \A r \in 1..Len(corpus) :
             SubSeq(disk[OutputFile][r], 1, RxnDim(rxn_type))
                = RxnFp(corpus[r].r, corpus[r].p, rxn_type)
       /\ \E rng0 \in 0..(RngMod - 1) :
             disk[OutputFile] = ExpectedRows(augs, corpus, rxn_type, rng0)

C5_Witness ==
    /\ OutputExists(disk)
    /\ pool.opens > 0
    /\ pool.workers = 2
    /\ pool.worker = 2
    /\ Len(corpus) = 2
    /\ corpus[1] # corpus[2]
    /\ Len(augs) > 0

HasUnknown(cfg) == \E k \in 1..Len(cfg) : cfg[k].key \notin KnownNames

HasActiveUnknown(cfg) ==
    \E k \in 1..Len(cfg) : cfg[k].key \notin KnownNames /\ cfg[k].num_neg # 0

\* ReactionDatasetSMILES.__init__ ran its registration loop
SmilesRegistered == sds.state # "none" /\ sds.onthefly /\ sds.mode = "pretrain"

\* C6 as stated: a configuration with an unknown augmentor name makes
\* construction fail, whatever the parameters of that entry.
C6_UnknownNameAlwaysFails ==
    /\ (p_state # "none" /\ HasUnknown(augmentations)) => p_state = "failed"
    /\ (SmilesRegistered /\ HasUnknown(augmentations)) => sds.state = "failed"

\* C6 amended: an unknown name makes construction fail exactly when its
\* num_neg is not 0 (ValueError, or in ReactionDatasetSMILES the
\* NotImplementedError of an active cos entry met first); with num_neg = 0 it
\* is skipped and accepted; no augmentor is registered for an unknown name
\* and no sample carries one.
C6_ActiveUnknownNameFails ==
    /\ p_state # "none" =>
          /\ p_state = "failed" <=> HasActiveUnknown(augmentations)
          /\ p_state = "failed" => p_err = "ValueError"
    /\ (SmilesRegistered /\ HasActiveUnknown(augmentations)) =>
          /\ sds.state = "failed"
          /\ sds.err \in {"ValueError", "NotImplementedError"}
          /\ sds.err = "NotImplementedError" => "cos" \in ActiveKeys(augmentations)
    /\ (SmilesRegistered /\ ActiveKeys(augmentations) \subseteq {"rdm", "mut", "crem"}) =>
          sds.state = "ok"
    /\ \A k \in 1..Len(augs) : augs[k].key \in KnownNames
    /\ \A k \in 1..Len(sds.augs) : sds.augs[k].key \in KnownNames
    /\ \A k \in 1..Len(last_mb.by) : last_mb.by[k] \in KnownNames \cup {"pos"}
    /\ got.err # "none" => (got.err = "AttributeError" /\ HasCos(augs))

C6_Witness ==
    /\ p_state = "ok"
    /\ \E k \in 1..Len(augmentations) :
          augmentations[k].key = "xyz" /\ augmentations[k].num_neg = 0
    /\ Len(augs) = 1
    /\ Returned
    /\ ds.state = "onthefly"

\* C7: an entry with num_neg = 0 is never registered, none of its files (the
\* mutation pool, the search index) is opened at construction or by a later
\* precompute, in the main process or in a worker, and no column of a
\* minibatch comes from it.
C7_ZeroNumNegSkipped ==
    p_state # "none" =>
       /\ \A k \in 1..Len(augs) :
             augs[k].num_neg # 0 /\ augs[k].key \in ActiveKeys(augmentations)
       /\ "mut_smis" \in opened => ActiveKeys(augmentations) \cap {"mut", "crem"} # {}
       /\ ("search_index" \in opened \/ index_loads > 0 \/ search_index = "loaded"
             \/ pool.index = "loaded") => "cos" \in ActiveKeys(augmentations)
       /\ \A k \in 1..Len(last_mb.by) :
             last_mb.by[k] \in ActiveKeys(augmentations) \cup {"pos"}
       /\ last_mb # NoMb =>
             Len(last_mb.row) = (1 + Cardinality({k \in 1..Len(last_mb.by) :
                                       last_mb.by[k] \in ActiveKeys(augmentations)}))
                                * RxnDim(rxn_type)

C7_Witness ==
    /\ p_state = "ok"
    /\ \E k \in 1..Len(augmentations) :
          augmentations[k].key \in {"cos", "mut"} /\ augmentations[k].num_neg = 0
    /\ Len(augs) = 1
    /\ pool.opens > 0
    /\ OutputExists(disk)

\* C8: __getitem__(i) returns row i reshaped to K rows of input_dim entries,
\* the mask and i; mask[k] is True exactly when row k has a nonzero entry,
\* negative entries included.
C8_GetItemTriple ==
    Returned =>
       /\ got.idx \in 0..(DsLen - 1)
       /\ Flatten(got.fps) = (IF ds.state = "precomp" THEN ds.data[got.idx + 1]
                              ELSE last_mb.row)
       /\ ds.state = "onthefly" => last_mb.rxn = rxn_smis[got.idx + 1]
       /\ Len(got.mask) = Len(got.fps)
       /\ \A k \in 1..Len(got.fps) :
             /\ Len(got.fps[k]) = ds.input_dim
             /\ got.mask[k] <=> \E c \in 1..Len(got.fps[k]) : got.fps[k][c] # 0

C8_Witness ==
    /\ Returned
    /\ ds.state = "precomp"
    /\ got.idx = 1
    /\ \E k \in 1..Len(got.fps) :
          got.mask[k] /\ \E c \in 1..Len(got.fps[k]) : got.fps[k][c] < 0
    /\ \E k \in 1..Len(got.fps) : ~got.mask[k]

\* neither an existing artifact nor an on-the-fly pipeline was given
NothingSupplied(a) ==
    /\ ~(a.fname # "None" /\ a.exists)
    /\ ~(a.onthefly /\ a.aug_given)

\* C9: constructing ReactionDatasetFingerprints with neither an existing
\* precomputed file nor an on-the-fly pipeline fails with RuntimeError, the
\* file name left at None and onthefly without augmented_data included.
C9_RuntimeErrorWhenNothingSupplied ==
    (ds.state # "none" /\ NothingSupplied(ds.args)) =>
       (ds.state = "failed" /\ ds.err = "RuntimeError")

\* the number of positions of augmentor key whose mask entry is False
CountFalse(mask, by, key) == Cardinality({k \in 1..Len(by) : by[k] = key /\ ~mask[k]})

CountAt(by, key) == Cardinality({k \in 1..Len(by) : by[k] = key})

\* the filler a pool of size p leaves among num_neg negatives
Shortfall(num_neg, p) == IF p >= num_neg THEN 0 ELSE num_neg - p

\* C10: the Mutate augmentor contributes num_neg positions; with a pool of
\* size p for the true product none of their mask entries is False when
\* p >= num_neg and exactly num_neg - p are when p < num_neg; in the SMILES
\* dataset the filler is the empty string, its mask entry False.
C10_MutateFiller ==
    /\ Returned =>
          \A j \in 1..Len(augs) : augs[j].kind = "mut" =>
             LET by == <<"pos">> \o ExpectedBy(augmentations)
                 p == Len(MutSmis(corpus[got.idx + 1].p))
             IN  /\ CountAt(by, augs[j].key) = augs[j].num_neg
                 /\ CountFalse(got.mask, by, augs[j].key) = Shortfall(augs[j].num_neg, p)
    /\ (sds.state = "ok" /\ sds.mode = "pretrain") =>
          \A i \in 1..Len(sds.masks) : \A j \in 1..Len(sds.augs) :
             sds.augs[j].kind = "mut" =>
                LET p == Len(MutSmis(corpus[i].p))
                IN  /\ CountAt(sds.by[i], sds.augs[j].key) = sds.augs[j].num_neg
                    /\ CountFalse(sds.masks[i], sds.by[i], sds.augs[j].key)
                          = Shortfall(sds.augs[j].num_neg, p)
                    /\ \A k \in 1..Len(sds.masks[i]) :
                          ~sds.masks[i][k] => sds.smiles[i][k] = CC

\* the columns of negative k (position k, the positive being position 0) in a row
Segment(row, k, d) == SubSeq(row, k * d + 1, (k + 1) * d)

\* the positions of a minibatch that augmentor key produced
PositionsOf(by, key) == {k \in 1..Len(by) : by[k] = key}

DiffCoords(a, b) == {c \in 1..Len(a) : a[c] # b[c]}

RandomKeys == {"rdm", "mut", "crem"}

\* C13: two pipeline instances constructed with the same seed and the same
\* configuration give the same Random and Mutate negatives for the same
\* reaction.
C13_SameSeedSameOutput ==
    (twin[1].out # <<>> /\ twin[2].out # <<>> /\ twin[1].rxn = twin[2].rxn) =>
       \A k \in 1..Len(twin[1].by) :
          twin[1].by[k] \in RandomKeys => twin[1].out[1][k] = twin[2].out[1][k]

\* C14: in one process (the main one, or the worker of a pool) the search
\* index is loaded once: by the first call that needs it, on its way into
\* the loop and not in a turn of it, and never again once it is loaded.
C14_IndexLoadedOnce ==
    [][/\ index_loads' # index_loads =>
             /\ index_loads' = index_loads + 1
             /\ built' = built
             /\ \/ /\ search_index = "None" /\ search_index' = "loaded"
                   /\ pool' = pool
                \/ /\ pool.index = "None" /\ pool'.index = "loaded"
                   /\ pool.task = "queued"
                   /\ search_index' = search_index
       /\ search_index' # search_index => index_loads' = index_loads + 1
       /\ search_index = "loaded" => search_index' = "loaded"
       /\ (pool.open /\ pool'.open /\ pool.index = "loaded") => pool'.index = "loaded"
       /\ (pre'.pc \in {"loop", "light"} /\ HasCos(augs)) => search_index' = "loaded"
       /\ (pool'.task = "running" /\ HasCos(augs)) => pool'.index = "loaded"]_vars

C14_Witness ==
    /\ HasCos(augs)
    /\ calls = 2
    /\ pre.pc = "light"
    /\ pre.i > 0
    /\ built > Len(corpus)
    /\ pool.opens = 0
    /\ index_loads = 1
    /\ search_index = "loaded"

\* C15: in parallel mode, with W > 1 workers and at least W reactions, the
\* reactions are divided among more than one worker, each reaction built by
\* exactly one of them.
C15_CorpusPartitioned ==
    (pool.task = "done" /\ pool.workers > 1 /\ Len(rxn_smis) >= pool.workers) =>
       /\ Len(pool.ran) = Len(rxn_smis)
       /\ Cardinality({pool.ran[k] : k \in 1..Len(pool.ran)}) > 1

\* C16: when a precompute_light_memory run completes without an error, the
\* final matrix is on disk at the output path, so that a later call with the
\* same output path returns at the already-exists test.
C16_FinalMatrixWritten ==
    [][(pre.pc = "light" /\ pre'.pc = "idle" /\ pre'.err = "none")
          => OutputFile \in DOMAIN disk']_vars

\* the elements of a sequence
Range(q) == {q[k] : k \in 1..Len(q)}

\* the rows of the shards of the given indices, read in increasing index order
RECURSIVE ShardRows(_, _)
ShardRows(d, labels) ==
    IF labels = {} THEN <<>>
    ELSE LET m == CHOOSE x \in labels : \A y \in labels : x <= y
         IN  d[ShardFile(m)] \o ShardRows(d, labels \ {m})

\* the positive reaction of row k is the k-th reaction of the corpus
RowsOfCorpus(rows, smis) ==
    /\ Len(rows) <= Len(smis)
    /\ \A k \in 1..Len(rows) :
          Segment(rows[k], 0, RxnDim(rxn_type)) = RxnFp(smis[k].r, smis[k].p, rxn_type)

\* C17: the shards a precompute_light_memory run has written are disjoint and
\* ordered: no shard index is written twice, and read in increasing index order
\* the shards, followed by the rows still in memory, are the rows of the corpus
\* reactions built so far, each once and in corpus order; when the loop has
\* ended they hold every corpus row.
C17_ShardsDisjointOrdered ==
    (pre.mode = "light" /\ pre.err # "KeyError") =>
       /\ \A a, b \in 1..Len(pre.shards) : a < b => pre.shards[a] < pre.shards[b]
       /\ Range(pre.shards) \subseteq {f[2] : f \in DOMAIN disk}
       /\ ShardRows(disk, Range(pre.shards)) \o pre.buf = pre.rows
       /\ Len(pre.rows) = pre.i
       /\ RowsOfCorpus(pre.rows, rxn_smis)
       /\ (pre.pc = "idle" /\ ~pre.cut) =>
             /\ Len(ShardRows(disk, Range(pre.shards))) = Len(rxn_smis)
             /\ Len(rxn_smis) - 1 \in Range(pre.shards)

C17_Witness ==
    /\ pre.mode = "light"
    /\ pre.pc = "idle"
    /\ pre.err = "none"
    /\ pre.shards = <<2, 3>>
    /\ Len(disk[ShardFile(2)]) = 3
    /\ Len(disk[ShardFile(3)]) = 1
    /\ rxn_smis[1] # rxn_smis[2]
    /\ augs # <<>>

\* the rows flushed before reaction j (counted from 0) is processed: those up
\* to the last index below j that `i > 0 and i % 19000 == 0` selects
FlushedBefore(j) ==
    LET cs == {c \in 1..(j - 1) : c % CheckpointEvery = 0}
    IN  IF cs = {} THEN 0 ELSE (CHOOSE c \in cs : \A e \in cs : e <= c) + 1

\* C18: when a run ends on an error raised while reaction j is processed, the
\* shards flushed before it are on disk as they were written and hold every
\* row built before the last checkpoint; only the rows built since are lost.
C18_CrashLosesUnflushedOnly ==
    (pre.err = "KeyError" /\ pre.mode = "light") =>
       /\ Len(pre.rows) = pre.i
       /\ Range(pre.shards) = {c \in 1..(pre.i - 1) : c % CheckpointEvery = 0}
       /\ Range(pre.shards) \subseteq {f[2] : f \in DOMAIN disk}
       /\ ShardRows(disk, Range(pre.shards)) = SubSeq(pre.rows, 1, FlushedBefore(pre.i))
       /\ RowsOfCorpus(pre.rows, rxn_smis)

C18_Witness ==
    /\ pre.err = "KeyError"
    /\ pre.mode = "light"
    /\ pre.i = 4
    /\ pre.shards = <<2>>
    /\ Len(disk[ShardFile(2)]) = 3
    /\ Len(pre.rows) = 4

\* the corpus holds a reaction that is not in the store
HasBad(smis) == \E k \in 1..Len(smis) : smis[k] = BadRxn

\* C19: a precompute call, serial or parallel, on a corpus with a reaction
\* that is not in the store ends on the lookup error, at that reaction and with
\* every reaction before it built; it writes nothing, and no file ever exists
\* at the output path for such a corpus.
C19_LookupErrorPropagates ==
    [][/\ (pre.pc \in {"loop", "wait"} /\ pre'.pc = "idle" /\ HasBad(rxn_smis)) =>
             /\ pre'.err = "KeyError"
             /\ disk' = disk
             /\ pre'.i < Len(rxn_smis)
             /\ rxn_smis[pre'.i + 1] = BadRxn
             /\ \A k \in 1..pre'.i : rxn_smis[k] # BadRxn
       /\ OutputFile \in DOMAIN disk' => ~HasBad(corpus)]_vars

C19_Witness ==
    /\ pre.err = "KeyError"
    /\ pre.mode = "parallel"
    /\ pool.opens = 1
    /\ calls = 2
    /\ pre.i = 2
    /\ built = 6
    /\ OutputFile \notin DOMAIN disk

\* C20: for every train, valid and test list remove_overlapping_rxn_smis
\* completes, and the lists it saves are pairwise disjoint: no reaction of the
\* saved train list is in valid or test, none of the saved valid list is in
\* test, and the test list is saved as it was.
C20_SavedListsDisjoint ==
    /\ ovl.pc # "failed"
    /\ ovl.pc = "done" =>
          /\ Range(ovl.files.train) \cap
                (Range(ovl.files.valid) \cup Range(ovl.files.test)) = {}
          /\ Range(ovl.files.valid) \cap Range(ovl.files.test) = {}
          /\ ovl.files.test = ovl.given.test

\* C23: in every precompute path a minibatch is built with an active Cosine
\* augmentor only by a process whose search index is loaded (and its query-time
\* parameters set): the main process in the serial and the light-memory loop,
\* the worker in precompute_helper.
C23_IndexBeforeFirstMinibatch ==
    [][(built' # built /\ HasCos(augs)) =>
          IF pool.task = "running" /\ pool' # pool
          THEN pool.index = "loaded"
          ELSE search_index = "loaded"]_vars

C23_Witness ==
    /\ HasCos(augs)
    /\ built = 1
    /\ pool.task = "running"
    /\ pool.i = 1
    /\ pool.index = "loaded"
    /\ search_index = "None"
    /\ last_mb # NoMb

\* C30: for every non-empty corpus precompute_light_memory reaches its last
\* save with at least one row in memory and returns without an error.
C30_LastChunkNeverEmpty ==
    /\ (pre.pc = "light" /\ pre.i = Len(rxn_smis)) => pre.buf # <<>>
    /\ pre.mode = "light" => pre.err # "ValueError"

\* C21: when the precomputed file exists the dataset loads it, whatever
\* onthefly and augmented_data are: load_smis is not called by __init__, and
\* __getitem__ reads the row of the matrix without invoking the pipeline.
C21_PrecomputedTakesPriority ==
    [][/\ (ds.state = "none" /\ ds'.state # "none" /\ ds'.args.fname # "None"
              /\ OutputFile \in DOMAIN disk) =>
             /\ ds'.state = "precomp"
             /\ ds'.data = disk[OutputFile]
             /\ rxn_smis' = rxn_smis
       /\ (gets' # gets /\ ds.args.fname # "None" /\ ds.args.exists) =>
             /\ built' = built
             /\ last_mb' = last_mb
             /\ random_state' = random_state
             /\ got'.err = "none"
             /\ got'.fps = Reshape(ds.data[got'.idx + 1], ds.input_dim)]_vars

C21_Witness ==
    /\ ds.state = "precomp"
    /\ ds.args.onthefly
    /\ ds.args.aug_given
    /\ augs # <<>>
    /\ gets = 2
    /\ got.err = "none"
    /\ built = Len(corpus)

\* C22: __len__ of a reaction dataset is the number of reactions of its
\* corpus: of ReactionDatasetFingerprints in both modes, of
\* ReactionDatasetSMILES in pretrain and in finetune mode.
C22_LenIsCorpusSize ==
    /\ ds.state \in DsModes => DsLen = Len(corpus)
    /\ sds.state = "ok" => Len(sds.smiles) = Len(corpus)

\* the finetune dataset was built
Finetuned == sds.state = "ok" /\ sds.mode = "finetune"

\* C24: in finetune mode every stored minibatch has minibatch_size reaction
\* SMILES and a mask of that length; position 0 is a true reaction with mask
\* True; a mask entry is False exactly where the SMILES is the placeholder CC.
C24_FinetuneMinibatchShape ==
    Finetuned =>
       /\ Len(sds.masks) = Len(sds.smiles)
       /\ \A i \in 1..Len(sds.smiles) :
             /\ Len(sds.smiles[i]) = sds.size
             /\ Len(sds.masks[i]) = sds.size
             /\ \E k \in 1..Len(corpus) : sds.smiles[i][1] = <<corpus[k].r, corpus[k].p>>
             /\ sds.masks[i][1]
             /\ \A k \in 1..Len(sds.masks[i]) : ~sds.masks[i][k] <=> sds.smiles[i][k] = CC

\* C25: in finetune mode the dataset holds one minibatch per data row of the
\* CSV, in row order: minibatch idx starts with the true reaction of data row
\* idx.
C25_OneMinibatchPerRow ==
    Finetuned =>
       /\ Len(sds.smiles) = Len(corpus)
       /\ \A i \in 1..Len(sds.smiles) :
             i <= Len(corpus) => sds.smiles[i][1] = <<corpus[i].r, corpus[i].p>>

\* seq is cands with some entries left out, the order kept
RECURSIVE IsSubsequence(_, _)
IsSubsequence(seq, cands) ==
    IF seq = <<>> THEN TRUE
    ELSE IF cands = <<>> THEN FALSE
    ELSE IF Head(seq) = Head(cands) THEN IsSubsequence(Tail(seq), Tail(cands))
    ELSE IsSubsequence(seq, Tail(cands))

\* C26: every list of all_smiles starts with the true reaction of its row,
\* no later entry has the true precursors or the placeholder 9999 as
\* precursors, and the candidates kept are those of the row in column order.
C26_AllSmilesFiltered ==
    Finetuned =>
       \A i \in 1..Len(sds.all_smiles) :
          LET row == CsvRow(corpus[i + 1])
              smiles == sds.all_smiles[i]
              kept == [j \in 1..(Len(smiles) - 1) |-> smiles[j + 1][1]]
          IN  /\ smiles[1] = <<row.true_precursors, row.prod_smi>>
              /\ \A j \in 2..Len(smiles) :
                    /\ smiles[j][2] = row.prod_smi
                    /\ smiles[j][1] # row.true_precursors
                    /\ smiles[j][1] # Placeholder
              /\ IsSubsequence(kept, row.cands)
              /\ \A j \in 1..Len(row.cands) :
                    (row.cands[j] # row.true_precursors /\ row.cands[j] # Placeholder)
                       => row.cands[j] \in Range(kept)

C26_Witness ==
    /\ Finetuned
    /\ Len(sds.all_smiles) = 1
    /\ Len(sds.all_smiles[1]) = 3
    /\ \E j \in 1..NCands : CsvRow(corpus[2]).cands[j] = Placeholder
    /\ \E j \in 1..NCands : CsvRow(corpus[2]).cands[j] = corpus[2].r

\* C28: after _compile_into_csv no train row holds the true precursors of its
\* reaction among its proposals, and every valid and test row is the list that
\* was proposed for its product (padded to topk).
C28_TrueRemovedFromTrainOnly ==
    rs.pc = "saved" =>
       /\ \A k \in 1..Len(rs.clean_50k.train) :
             rs.clean_50k.train[k].r \notin Range(rs.csv.train[k])
       /\ \A k \in 1..Len(rs.clean_50k.valid) :
             rs.csv.valid[k] = PadToTopK(rs.given[rs.clean_50k.valid[k].p])
       /\ \A k \in 1..Len(rs.clean_50k.test) :
             rs.csv.test[k] = PadToTopK(rs.given[rs.clean_50k.test[k].p])

\* C27: precompute() with graph features loads from the cache only when all
\* four cache files exist, and then computes and writes nothing; when one is
\* missing it computes everything and writes all four; once a run has succeeded
\* the four files exist and were written by one computation
C27_CacheAllOrNothing ==
    [][LET c == gf.cache
           allFour == c.smi.run # 0 /\ c.mask.run # 0 /\ c.feat.run # 0
                      /\ c.feat_index.run # 0
           precomputes == gf'.run = gf.run + 1 /\ gf'.pc # "failed"
       IN  /\ (precomputes /\ allFour) =>
                 /\ gf'.loaded /\ gf'.pc = "done" /\ gf'.pending = {}
                 /\ gf'.cache = c
                 /\ random_state' = seed
                 /\ gf'.smiles = c.smi.data /\ gf'.masks = c.mask.data
                 /\ gf'.feat = c.feat.data /\ gf'.feat_index = c.feat_index.data
           /\ (precomputes /\ ~allFour) =>
                 /\ ~gf'.loaded /\ gf'.pc = "map"
                 /\ gf'.pending = {k - 1 : k \in 1..Len(gf'.smiles)}
           /\ (gf.pc = "cache" /\ gf'.pc = "done") =>
                 /\ gf'.cache.smi = [run |-> gf.run, data |-> gf.smiles]
                 /\ gf'.cache.mask = [run |-> gf.run, data |-> gf.masks]
                 /\ gf'.cache.feat = [run |-> gf.run, data |-> gf.feat]
                 /\ gf'.cache.feat_index = [run |-> gf.run, data |-> gf.feat_index]
           /\ (gf.loaded /\ gf'.run = gf.run) => gf'.cache = c
           /\ gf'.pc = "done" =>
                 /\ gf'.cache.smi.run # 0
                 /\ gf'.cache.mask.run = gf'.cache.smi.run
                 /\ gf'.cache.feat.run = gf'.cache.smi.run
                 /\ gf'.cache.feat_index.run = gf'.cache.smi.run]_vars

\* the second construction loaded what the first computed and wrote
C27_Witness ==
    /\ gf.run = 2 /\ gf.pc = "done" /\ gf.loaded
    /\ gf.cache.smi.run = 1
    /\ Len(gf.smiles) = 2
    /\ gf.feat = gf.cache.feat.data

\* C29: in whatever order the workers finish, minibatch_mol_indexes[idx] is the
\* contiguous range of the molecules of minibatch idx, the ranges of different
\* minibatches are disjoint, the intervals of _lengths2indexes are contiguous
\* and cover each array, and the slices __getitem__(idx) takes are exactly the
\* rows computed for each molecule of minibatch idx
C29_MoleculesOfMinibatch ==
    (gf.pc = "done" /\ gf.smiles # <<>>) =>
        LET mmi == gf.feat_index.minibatch_mol_indexes
            ixs == gf.feat_index.indexes
            M == Len(gf.smiles)
            n == Len(gf.smiles[1]) + 1
        IN  /\ Len(mmi) = M
            /\ \A i \in 0..(M - 1) :
                  /\ mmi[i + 1] = [j \in 1..n |-> i * n + j - 1]
                  /\ \A k \in 0..(M - 1) :
                        k # i => Range(mmi[i + 1]) \cap Range(mmi[k + 1]) = {}
                  /\ \A j \in 1..n, A \in Arrays :
                        LET m == MinibatchMols(gf.mode, gf.smiles[i + 1])[j]
                            se == ixs[IndexOfArray(A)][mmi[i + 1][j] + 1]
                        IN  SubSeq(gf.feat[A], se[1] + 1, se[2]) =
                                [x \in 1..NumRows(IndexOfArray(A), m) |-> <<i, j, m, x>>]
            /\ \A A \in Indexed :
                  /\ Len(ixs[A]) = M * n
                  /\ ixs[A][1][1] = 0
                  /\ ixs[A][M * n][2] = Len(gf.feat[A])
                  /\ \A k \in 1..(M * n) : ixs[A][k][1] <= ixs[A][k][2]
                  /\ \A k \in 1..(M * n - 1) : ixs[A][k + 1][1] = ixs[A][k][2]
            /\ gf.idx >= 0 =>
                  gf.item = [j \in 1..n |-> [A \in Arrays |->
                      LET m == MinibatchMols(gf.mode, gf.smiles[gf.idx + 1])[j]
                      IN  [x \in 1..NumRows(IndexOfArray(A), m) |-> <<gf.idx, j, m, x>>]]]

\* the second minibatch was finished before the first, and then fetched
C29_Witness ==
    /\ gf.pc = "done" /\ ~gf.loaded
    /\ gf.finished = <<1, 0>>
    /\ gf.idx = 1
    /\ Len(gf.item) > 1

====
